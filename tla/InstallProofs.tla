----------------------------- MODULE InstallProofs -----------------------------
(***************************************************************************)
(* What holds of PkgInstall for any number of requests, of packages in the *)
(* archive and beside it and of installs, whatever their hashes.           *)
(***************************************************************************)
EXTENDS PkgInstall, TLAPS

-----------------------------------------------------------------------------
(***************************************************************************)
(* An install is watched only once its request or the worker has put it in *)
(* the list, and cleaned up only after that; so neither starts one a       *)
(* second time.  Its split file is freed after the writer is joined.       *)
(***************************************************************************)
Foreground == Entries \cup Packages

Unused ==
  /\ \A r \in Requests : request[r] # "done" => watch[r] = "none"
  /\ \A e \in worker.left : watch[e] = "none"
  /\ worker.pc \in {"header", "watch"} => worker.entry \in Foreground
  /\ worker.pc = "header" => watch[worker.entry] = "none" /\ worker.entry \notin worker.left

CleanedLast ==
  \A i \in Installs :
    /\ clean[i] # "none" => watch[i] \in {"remove", "lower", "gone"}
    /\ watch[i] \in {"remove", "lower"} => clean[i] # "none"
    /\ clean[i] \in {"free", "gone"} => writer[i] = "ended"
    /\ data[i] = "freed" => clean[i] = "gone"

Base == TypeOK /\ Unused /\ CleanedLast

WorkerStates ==
  [pc : {"idle", "loop", "header", "watch", "transfer", "asking"},
   left : SUBSET (Entries \cup Packages), entry : Entries \cup Packages \cup {None}]

LEMMA BaseInit == Init => Base
<1> SUFFICES ASSUME Init  PROVE Base
  OBVIOUS
<1>1. TypeOK
  <2>1. PICK rs \in SUBSET Requests, es \in SUBSET (Entries \cup Packages) :
          /\ request = [r \in Requests |-> IF r \in rs THEN "idle" ELSE "done"]
          /\ worker = [pc |-> "idle", left |-> es, entry |-> None]
    BY DEF Init
  <2>2. /\ request \in [Requests -> {"idle", "tested", "raised", "header", "done", "forgotten"}]
        /\ worker \in WorkerStates
    BY <2>1 DEF WorkerStates
  <2>3. DOMAIN list = {}
    BY DEF Init
  <2>4. fetch \in [Installs -> [pc : {"none", "use", "served"}, found : Installs \cup {None}]]
    BY DEF Init, NoFetch
  <2>5. QED  BY <2>2, <2>3, <2>4 DEF Init, TypeOK, WorkerStates
<1>2. Unused
  <2>1. PICK es \in SUBSET (Entries \cup Packages) : worker = [pc |-> "idle", left |-> es, entry |-> None]
    BY DEF Init
  <2>2. QED  BY <2>1 DEF Init, Unused, Installs
<1>3. CleanedLast
  BY DEF Init, CleanedLast
<1>4. QED  BY <1>1, <1>2, <1>3 DEF Base

LEMMA ListsTypes ==
  ASSUME Base, NEW i \in Installs, Lists(i)
  PROVE  /\ watch' \in [Installs -> {"none", "ask", "poll", "clean", "remove", "lower", "gone"}]
         /\ DOMAIN list' \subseteq {Hash[j] : j \in Installs}
         /\ \A h \in DOMAIN list' : list'[h] \in Installs \cup {None}
BY DEF Base, TypeOK, Lists, Watch

(* The steps that only move the worker, and the flag. *)
WorkerMoves == WorkerStarts \/ WorkerAsks \/ WorkerResumes \/ WorkerBack \/ WorkerEnds

LEMMA WorkerMovesTo ==
  ASSUME worker \in WorkerStates, WorkerMoves
  PROVE  /\ worker'.pc \in {"idle", "loop", "transfer", "asking"} /\ worker'.entry = worker.entry
         /\ worker'.left \in {worker.left, {}}
         /\ worker' \in WorkerStates
<1>1. ASSUME NEW pc \in {"idle", "loop", "transfer", "asking"},
             worker' = [worker EXCEPT !.pc = pc] \/ worker' = [worker EXCEPT !.pc = pc, !.left = {}]
      PROVE  /\ worker'.pc = pc /\ worker'.entry = worker.entry
             /\ worker'.left \in {worker.left, {}}
             /\ worker' \in WorkerStates
  BY <1>1 DEF WorkerStates
<1>2. QED
  BY <1>1 DEF WorkerMoves, WorkerStarts, WorkerAsks, WorkerResumes, WorkerBack, WorkerEnds

LEMMA TypesStep == Base /\ [Next]_vars => TypeOK'
<1> SUFFICES ASSUME Base, [Next]_vars  PROVE TypeOK'
  OBVIOUS
<1> USE DEF threads, store, outside
<1>0. TypeOK /\ Unused /\ Installs = Requests \cup Foreground /\ Foreground = Entries \cup Packages
  BY DEF Base, Installs, Foreground
<1>1. ASSUME NEW r \in Requests, Refused(r) \/ Tested(r) \/ Raises(r) \/ GivesUp(r) \/ FallsThrough(r)
      PROVE  TypeOK'
  <2>1. /\ \E pc \in {"tested", "raised", "done", "forgotten"} : request' = [request EXCEPT ![r] = pc]
        /\ activity_inprogess' \in {TRUE, FALSE, activity_inprogess}
        /\ UNCHANGED <<worker, data, writer, closed, watch, clean, list, installer, fetch>>
    BY <1>1 DEF Refused, Tested, Raises, GivesUp, FallsThrough, Goto
  <2>2. request' \in [Requests -> {"idle", "tested", "raised", "header", "done", "forgotten"}]
    BY <1>0, <2>1 DEF TypeOK
  <2>3. QED  BY <1>0, <2>1, <2>2 DEF TypeOK
<1>2. ASSUME NEW r \in Requests, StartsCache(r)  PROVE TypeOK'
  BY <1>0, <1>2 DEF StartsCache, NewData, Goto, TypeOK
<1>3. ASSUME NEW r \in Requests, StartsWatch(r)  PROVE TypeOK'
  <2>1. r \in Installs /\ Lists(r)
    BY <1>0, <1>3 DEF StartsWatch
  <2>2. QED  BY <1>0, <1>3, <2>1, ListsTypes DEF StartsWatch, Goto, TypeOK
<1>4. CASE WorkerMoves
  <2>1. /\ activity_inprogess' \in BOOLEAN
        /\ UNCHANGED <<request, data, writer, closed, watch, clean, list, installer, fetch>>
    BY <1>0, <1>4 DEF WorkerMoves, WorkerStarts, WorkerAsks, WorkerResumes, WorkerBack, WorkerEnds, TypeOK
  <2>2. worker \in WorkerStates
    BY <1>0 DEF TypeOK, WorkerStates
  <2>3. worker' \in WorkerStates
    BY <1>4, <2>2, WorkerMovesTo DEF WorkerStates
  <2>4. QED  BY <1>0, <2>1, <2>3 DEF TypeOK, WorkerStates
<1>5. CASE WorkerNext
  <2>1. PICK e \in worker.left : /\ worker' = [pc |-> "header", left |-> worker.left \ {e}, entry |-> e]
                                 /\ NewData(e)
    BY <1>5 DEF WorkerNext
  <2>2. e \in Foreground
    BY <1>0, <2>1 DEF TypeOK
  <2>3. QED  BY <1>0, <1>5, <2>1, <2>2 DEF WorkerNext, NewData, TypeOK
<1>6. CASE WorkerLists
  <2>1. worker.entry \in Installs /\ Lists(worker.entry)
    BY <1>0, <1>6 DEF WorkerLists, Unused
  <2>2. QED  BY <1>0, <1>6, <2>1, ListsTypes DEF WorkerLists, TypeOK
<1>7. ASSUME NEW i \in Installs, WatchStep(i)  PROVE TypeOK'
  <2>1. CASE Accepted(i)
    BY <1>0, <2>1 DEF Accepted, Watch, TypeOK
  <2>2. CASE NotAccepted(i)
    BY <1>0, <2>2 DEF NotAccepted, Watch, TypeOK
  <2>3. CASE SeesEnd(i) \/ SeesError(i)
    BY <1>0, <2>3 DEF SeesEnd, SeesError, AfterError, Watch, TypeOK
  <2>4. CASE StartsClean(i)
    BY <1>0, <2>4 DEF StartsClean, Watch, TypeOK
  <2>5. CASE Removes(i)
    BY <1>0, <2>5 DEF Removes, Erased, AfterRemove, Watch, TypeOK
  <2>6. CASE Lowers(i)
    BY <1>0, <2>6 DEF Lowers, Watch, TypeOK
  <2>7. QED  BY <1>7, <2>1, <2>2, <2>3, <2>4, <2>5, <2>6 DEF WatchStep
<1>8. ASSUME NEW i \in Installs, CleanStep(i) \/ WriterEnds(i)  PROVE TypeOK'
  <2>1. CASE Closes(i)
    BY <1>0, <2>1 DEF Closes, TypeOK
  <2>2. CASE Joins(i)
    BY <1>0, <2>2 DEF Joins, TypeOK
  <2>3. CASE Frees(i)
    BY <1>0, <2>3 DEF Frees, TypeOK
  <2>4. CASE WriterEnds(i)
    BY <1>0, <2>4 DEF WriterEnds, TypeOK
  <2>5. QED  BY <1>8, <2>1, <2>2, <2>3, <2>4 DEF CleanStep
<1>9. ASSUME NEW i \in Installs, InstallerStep(i)  PROVE TypeOK'
  <2>1. CASE LooksUp(i)
    <3>1. Found(i) \in Installs \cup {None}
      BY <1>0 DEF Found, TypeOK
    <3>2. QED  BY <1>0, <2>1, <3>1 DEF LooksUp, TypeOK
  <2>2. CASE Serves(i)
    BY <1>0, <2>2 DEF Serves, TypeOK
  <2>3. CASE Playable(i) \/ Fails(i)
    BY <1>0, <2>3 DEF Playable, Fails, NoFetch, TypeOK
  <2>4. QED  BY <1>9, <2>1, <2>2, <2>3 DEF InstallerStep
<1>10. CASE UNCHANGED vars
  BY <1>0, <1>10 DEF vars, TypeOK
<1>11. QED
  BY <1>1, <1>2, <1>3, <1>4, <1>5, <1>6, <1>7, <1>8, <1>9, <1>10
     DEF Next, RequestStep, WorkerStep, WorkerMoves

LEMMA UnusedStep == Base /\ [Next]_vars => Unused'
<1> SUFFICES ASSUME Base, [Next]_vars  PROVE Unused'
  OBVIOUS
<1> USE DEF threads, store, outside
<1>0. /\ TypeOK /\ Unused
      /\ Installs = Requests \cup Foreground /\ Requests \cap Foreground = {}
      /\ Foreground = Entries \cup Packages
  BY PkgInstallAssumption DEF Base, Installs, Foreground
<1>1. ASSUME NEW r \in Requests,
             Refused(r) \/ Tested(r) \/ Raises(r) \/ GivesUp(r) \/ FallsThrough(r) \/ StartsCache(r)
      PROVE  Unused'
  <2>1. /\ UNCHANGED <<worker, watch>> /\ request[r] # "done"
        /\ \E pc \in {"done", "tested", "raised", "forgotten", "header"} : Goto(r, pc)
    BY <1>1 DEF Refused, Tested, Raises, GivesUp, FallsThrough, StartsCache, At
  <2>2. QED  BY <1>0, <2>1 DEF Goto, Unused, TypeOK
<1>2. ASSUME NEW r \in Requests, StartsWatch(r)  PROVE Unused'
  <2>1. /\ watch' = [watch EXCEPT ![r] = "ask"] /\ request' = [request EXCEPT ![r] = "done"]
        /\ UNCHANGED worker
    BY <1>2 DEF StartsWatch, Lists, Watch, Goto
  <2>2. QED  BY <1>0, <2>1 DEF Unused, TypeOK
<1>3. CASE WorkerMoves
  <2>1. worker \in WorkerStates
    BY <1>0 DEF TypeOK, WorkerStates
  <2>2. UNCHANGED <<request, watch>>
    BY <1>3 DEF WorkerMoves, WorkerStarts, WorkerAsks, WorkerResumes, WorkerBack, WorkerEnds
  <2>3. worker'.pc \in {"idle", "loop", "transfer", "asking"} /\ worker'.left \in {worker.left, {}}
    BY <1>3, <2>1, WorkerMovesTo
  <2>4. QED  BY <1>0, <2>2, <2>3 DEF Unused
<1>4. CASE WorkerNext
  BY <1>0, <1>4 DEF WorkerNext, Unused, TypeOK
<1>5. CASE WorkerLists
  <2>1. /\ watch' = [watch EXCEPT ![worker.entry] = "ask"] /\ worker' = [worker EXCEPT !.pc = "watch"]
        /\ worker.entry \in Foreground /\ worker.entry \notin worker.left /\ UNCHANGED request
    BY <1>0, <1>5 DEF WorkerLists, Lists, Watch, Unused
  <2>2. QED  BY <1>0, <2>1 DEF Unused, TypeOK
<1>6. ASSUME NEW i \in Installs, WatchStep(i)  PROVE Unused'
  <2>1. /\ watch[i] # "none" /\ UNCHANGED <<request, worker>>
        /\ \E pc : watch' = [watch EXCEPT ![i] = pc]
    BY <1>6 DEF WatchStep, Accepted, NotAccepted, SeesEnd, SeesError, StartsClean, Removes, Lowers, Watch
  <2>2. QED  BY <1>0, <2>1 DEF Unused, TypeOK
<1>7. ASSUME NEW i \in Installs, CleanStep(i) \/ WriterEnds(i) \/ InstallerStep(i)  PROVE Unused'
  <2>1. UNCHANGED <<request, worker, watch>>
    BY <1>7 DEF CleanStep, Closes, Joins, Frees, WriterEnds, InstallerStep, LooksUp, Serves, Playable, Fails
  <2>2. QED  BY <1>0, <2>1 DEF Unused
<1>8. CASE UNCHANGED vars
  BY <1>0, <1>8 DEF vars, Unused
<1>9. QED
  BY <1>1, <1>2, <1>3, <1>4, <1>5, <1>6, <1>7, <1>8 DEF Next, RequestStep, WorkerStep, WorkerMoves

LEMMA CleanedLastStep == Base /\ [Next]_vars => CleanedLast'
<1> SUFFICES ASSUME Base, [Next]_vars  PROVE CleanedLast'
  OBVIOUS
<1> USE DEF threads, store, outside
<1>0. TypeOK /\ Unused /\ CleanedLast /\ Installs = Requests \cup Foreground /\ Foreground = Entries \cup Packages
  BY DEF Base, Installs, Foreground
<1>1. ASSUME NEW i \in Installs, watch[i] = "none", NewData(i), UNCHANGED <<watch, clean>>
      PROVE  CleanedLast'
  BY <1>0, <1>1 DEF NewData, CleanedLast, TypeOK
<1>2. ASSUME NEW i \in Installs, watch[i] = "none", Lists(i), UNCHANGED <<data, writer, clean>>
      PROVE  CleanedLast'
  BY <1>0, <1>2 DEF Lists, Watch, CleanedLast, TypeOK
<1>3. ASSUME UNCHANGED <<data, writer, watch, clean>>  PROVE CleanedLast'
  BY <1>0, <1>3 DEF CleanedLast
<1>4. ASSUME NEW r \in Requests, Refused(r) \/ Tested(r) \/ Raises(r) \/ GivesUp(r) \/ FallsThrough(r)
      PROVE  CleanedLast'
  BY <1>3, <1>4 DEF Refused, Tested, Raises, GivesUp, FallsThrough
<1>5. ASSUME NEW r \in Requests, StartsCache(r) \/ StartsWatch(r)  PROVE CleanedLast'
  <2>1. watch[r] = "none" /\ r \in Installs
    BY <1>0, <1>5 DEF StartsCache, StartsWatch, At, Unused
  <2>2. QED  BY <1>1, <1>2, <1>5, <2>1 DEF StartsCache, StartsWatch
<1>6. CASE WorkerMoves
  BY <1>3, <1>6 DEF WorkerMoves, WorkerStarts, WorkerAsks, WorkerResumes, WorkerBack, WorkerEnds
<1>7. CASE WorkerNext
  <2>1. PICK e \in worker.left : NewData(e)
    BY <1>7 DEF WorkerNext
  <2>2. e \in Installs /\ watch[e] = "none"
    BY <1>0 DEF TypeOK, Unused
  <2>3. QED  BY <1>1, <1>7, <2>1, <2>2 DEF WorkerNext
<1>8. CASE WorkerLists
  <2>1. worker.entry \in Installs /\ watch[worker.entry] = "none"
    BY <1>0, <1>8 DEF WorkerLists, Unused
  <2>2. QED  BY <1>2, <1>8, <2>1 DEF WorkerLists
<1>9. ASSUME NEW i \in Installs, WatchStep(i)  PROVE CleanedLast'
  <2>1. CASE StartsClean(i)
    BY <1>0, <2>1 DEF StartsClean, Watch, CleanedLast, TypeOK
  <2>2. CASE ~StartsClean(i)
    <3>1. /\ UNCHANGED <<data, writer, clean>>
          /\ \/ watch[i] \in {"ask", "poll"} /\ \E pc \in {"poll", "clean", "gone"} : Watch(i, pc)
             \/ watch[i] \in {"remove", "lower"} /\ \E pc \in {"lower", "gone"} : Watch(i, pc)
      <4>1. CASE Accepted(i) \/ SeesEnd(i)
        BY <4>1 DEF Accepted, SeesEnd
      <4>2. CASE NotAccepted(i)
        BY <4>2 DEF NotAccepted
      <4>3. CASE SeesError(i)
        BY <4>3 DEF SeesError, AfterError
      <4>4. CASE Removes(i)
        BY <4>4 DEF Removes, AfterRemove
      <4>5. CASE Lowers(i)
        BY <4>5 DEF Lowers
      <4>6. QED  BY <1>9, <2>2, <4>1, <4>2, <4>3, <4>4, <4>5 DEF WatchStep
    <3>2. QED  BY <1>0, <3>1 DEF Watch, CleanedLast, TypeOK
  <2>3. QED  BY <2>1, <2>2
<1>10. ASSUME NEW i \in Installs, CleanStep(i) \/ WriterEnds(i)  PROVE CleanedLast'
  BY <1>0, <1>10 DEF CleanStep, Closes, Joins, Frees, WriterEnds, CleanedLast, TypeOK
<1>11. ASSUME NEW i \in Installs, InstallerStep(i)  PROVE CleanedLast'
  BY <1>3, <1>11 DEF InstallerStep, LooksUp, Serves, Playable, Fails
<1>12. CASE UNCHANGED vars
  BY <1>3, <1>12 DEF vars
<1>13. QED
  BY <1>4, <1>5, <1>6, <1>7, <1>8, <1>9, <1>10, <1>11, <1>12 DEF Next, RequestStep, WorkerStep, WorkerMoves

THEOREM BaseAlways == Spec => []Base
<1>1. Base /\ [Next]_vars => Base'
  BY TypesStep, UnusedStep, CleanedLastStep DEF Base
<1>2. QED  BY BaseInit, <1>1, PTL DEF Spec

(* Every reachable state of the installs is well typed: in particular the worker *)
(* lists and watches only what it has been told to install.                      *)
THEOREM TypeCorrect == Spec => []TypeOK
<1>1. Base => TypeOK
  BY DEF Base
<1>2. QED  BY <1>1, BaseAlways, PTL

(* A split file is freed only when the thread that writes it has ended, with     *)
(* however many requests and entries at a time, refused, failed or raced:        *)
(* CleanupThread in installer.cpp.                                               *)
THEOREM FreedAfterWriter == Spec => []NoFreedUnderWriter
<1>1. Base => NoFreedUnderWriter
  BY DEF Base, CleanedLast, NoFreedUnderWriter
<1>2. QED  BY <1>1, BaseAlways, PTL

-----------------------------------------------------------------------------
(***************************************************************************)
(* One install at a time.  Without the races that Racing names, a request  *)
(* holds the flag from the moment it is raised to the moment it is         *)
(* lowered, or for good when it is abandoned, and the worker until it ends *)
(* or asks - unless it has installed a package, which lowers the flag for  *)
(* all that the worker still does.                                         *)
(***************************************************************************)
Held(r) ==
  \/ request[r] \in {"raised", "header", "forgotten"}
  \/ watch[r] \notin {"none", "gone"}
  \/ Refusal(r)

(* Holding the flag or about to raise it. *)
In(r) == request[r] = "tested" \/ Held(r)

Solo ==
  /\ \A r \in Requests : request[r] = "tested" => ~activity_inprogess
  /\ \A r \in Requests : Held(r) => activity_inprogess
  /\ worker.pc \notin {"idle", "asking"} => activity_inprogess \/ LoweredEarly
  /\ \A r, s \in Requests : In(r) /\ In(s) => r = s
  /\ \A r \in Requests : In(r) => worker.pc = "idle"
  /\ \A e \in Foreground : watch[e] \notin {"none", "gone"} => (worker.pc = "watch" /\ worker.entry = e)
  /\ \A e \in Entries : watch[e] # "lower"

(* The installer has an answer before the watching ends. *)
Watched ==
  /\ \A i \in Installs :
       /\ installer[i] = "fetching" => watch[i] = "poll"
       /\ watch[i] \in {"none", "ask"} => installer[i] = "none"
       /\ watch[i] = "poll" => installer[i] # "none"
       /\ fetch[i].pc = "use" => installer[i] = "fetching" /\ fetch[i].found = i
       /\ watch[i] \in {"ask", "poll", "clean"} => data[i] = "live"
       /\ watch[i] \in {"ask", "poll", "clean", "remove"} => Hash[i] \in DOMAIN list /\ list[Hash[i]] = i
  /\ \A r \in Requests : request[r] = "header" => data[r] = "live"
  /\ worker.pc = "header" => data[worker.entry] = "live"
  /\ \A r \in Requests : watch[r] \in {"clean", "remove", "lower"} => installer[r] # "none"

Shared == Base /\ Solo /\ Watched

LEMMA SharedFacts ==
  Shared => /\ TypeOK /\ Unused /\ CleanedLast /\ Solo /\ Watched
            /\ Installs = Requests \cup Foreground /\ Requests \cap Foreground = {}
            /\ Foreground = Entries \cup Packages
BY PkgInstallAssumption DEF Shared, Base, Installs, Foreground

(* A flag lowered early stays so. *)
LEMMA LoweredStays ==
  ASSUME Base, [Next]_vars, LoweredEarly
  PROVE  LoweredEarly'
<1> USE DEF threads, store, outside
<1>0. /\ TypeOK /\ Unused /\ Installs = Requests \cup Foreground /\ Foreground = Entries \cup Packages
      /\ Requests \cap Foreground = {}
  BY PkgInstallAssumption DEF Base, Installs, Foreground
<1>1. PICK p \in Packages : watch[p] = "gone" /\ clean[p] # "none"
  BY DEF LoweredEarly
<1>2. SUFFICES watch'[p] = "gone" /\ clean'[p] # "none"
  BY DEF LoweredEarly
<1>3. ASSUME UNCHANGED <<watch, clean>>  PROVE watch'[p] = "gone" /\ clean'[p] # "none"
  BY <1>1, <1>3
<1>4. ASSUME NEW r \in Requests, Refused(r) \/ Tested(r) \/ Raises(r) \/ GivesUp(r) \/ FallsThrough(r) \/ StartsCache(r)
      PROVE  watch'[p] = "gone" /\ clean'[p] # "none"
  BY <1>3, <1>4 DEF Refused, Tested, Raises, GivesUp, FallsThrough, StartsCache
<1>5. ASSUME NEW r \in Requests, StartsWatch(r)  PROVE watch'[p] = "gone" /\ clean'[p] # "none"
  BY <1>0, <1>1, <1>5 DEF StartsWatch, Lists, Watch, TypeOK
<1>6. CASE WorkerMoves \/ WorkerNext
  BY <1>3, <1>6 DEF WorkerMoves, WorkerStarts, WorkerAsks, WorkerResumes, WorkerBack, WorkerEnds, WorkerNext
<1>7. CASE WorkerLists
  <2>1. worker.entry # p
    BY <1>0, <1>1, <1>7 DEF WorkerLists, Unused
  <2>2. QED  BY <1>0, <1>1, <1>7, <2>1 DEF WorkerLists, Lists, Watch, TypeOK
<1>8. ASSUME NEW i \in Installs, WatchStep(i)  PROVE watch'[p] = "gone" /\ clean'[p] # "none"
  <2>1. watch[i] # "gone" /\ watch'[p] = (IF p = i THEN watch'[p] ELSE watch[p])
        /\ clean'[p] = (IF p = i THEN clean'[p] ELSE clean[p])
    BY <1>0, <1>8 DEF WatchStep, Accepted, NotAccepted, SeesEnd, SeesError, StartsClean, Removes, Lowers,
                      Watch, TypeOK
  <2>2. QED  BY <1>1, <2>1
<1>9. ASSUME NEW i \in Installs, CleanStep(i)  PROVE watch'[p] = "gone" /\ clean'[p] # "none"
  BY <1>0, <1>1, <1>9 DEF CleanStep, Closes, Joins, Frees, TypeOK
<1>10. ASSUME NEW i \in Installs, WriterEnds(i) \/ InstallerStep(i)
       PROVE  watch'[p] = "gone" /\ clean'[p] # "none"
  BY <1>3, <1>10 DEF WriterEnds, InstallerStep, LooksUp, Serves, Playable, Fails
<1>11. CASE UNCHANGED vars
  BY <1>3, <1>11 DEF vars
<1>12. QED
  BY <1>4, <1>5, <1>6, <1>7, <1>8, <1>9, <1>10, <1>11 DEF Next, RequestStep, WorkerStep, WorkerMoves

LEMMA SoloStep ==
  ASSUME ~Racing, ~Misread, Shared, [Next]_vars
  PROVE  Solo'
<1> USE DEF threads, store, outside
<1>0. /\ TypeOK /\ Unused /\ CleanedLast /\ Solo /\ Watched
      /\ Installs = Requests \cup Foreground /\ Requests \cap Foreground = {}
      /\ Foreground = Entries \cup Packages
  BY SharedFacts
<1>a. LoweredEarly => LoweredEarly'
  BY <1>0, LoweredStays DEF Shared
<1>1. ASSUME NEW r \in Requests, Tested(r)  PROVE Solo'
  <2>1. ~activity_inprogess /\ \A s \in Requests : request[s] # "tested"
    BY <1>1 DEF Tested, MayStart, At
  <2>2. \A s \in Requests : ~In(s)
    BY <1>0, <2>1 DEF Solo, In
  <2>3. worker.pc = "idle"
    BY <1>1 DEF Tested, MayStart
  <2>4. /\ request' = [request EXCEPT ![r] = "tested"]
        /\ UNCHANGED <<activity_inprogess, worker, watch, installer>>
    BY <1>1 DEF Tested, Goto
  <2>5. QED  BY <1>0, <2>1, <2>2, <2>3, <2>4 DEF Solo, In, Held, Refusal, TypeOK
<1>2. ASSUME NEW r \in Requests, request[r] = "tested" \/ Held(r),
             UNCHANGED <<worker, installer>>,
             \E pc : request' = [request EXCEPT ![r] = pc] /\ pc # "tested",
             \E pc : watch' = [watch EXCEPT ![r] = pc],
             \/ activity_inprogess' = TRUE
             \/ activity_inprogess' = activity_inprogess /\ ((Held(r)' => Held(r)))
             \/ activity_inprogess' = FALSE /\ ~Held(r)'
      PROVE  Solo'
  <2>1. \A s \in Requests : s # r => ~In(s) /\ ~In(s)'
    <3>1. In(r)
      BY <1>2 DEF In
    <3>2. \A s \in Requests : s # r => ~In(s)
      BY <1>0, <3>1 DEF Solo
    <3>3. \A s \in Requests : s # r => request'[s] = request[s] /\ watch'[s] = watch[s]
      BY <1>0, <1>2 DEF TypeOK
    <3>4. QED  BY <1>2, <3>2, <3>3 DEF In, Held, Refusal
  <2>2. worker.pc = "idle" /\ worker' = worker
    BY <1>0, <1>2 DEF Solo, In
  <2>3. request'[r] # "tested"
    BY <1>0, <1>2 DEF TypeOK
  <2>4. Held(r)' => activity_inprogess'
    BY <1>0, <1>2 DEF Solo
  <2>5. \A e \in Foreground : watch'[e] = watch[e]
    BY <1>0, <1>2 DEF TypeOK
  <2>6. QED  BY <1>0, <2>1, <2>2, <2>3, <2>4, <2>5 DEF Solo, In
<1>3. ASSUME NEW r \in Requests, Refused(r)  PROVE Solo'
  BY <1>0, <1>a, <1>3 DEF Refused, Goto, At, Solo, In, Held, Refusal, TypeOK
<1>4. ASSUME NEW r \in Requests, RequestStep(r)  PROVE Solo'
  <2>1. watch[r] = "none" /\ request[r] \in {"tested", "raised", "header"}
    BY <1>0, <1>4 DEF RequestStep, Raises, GivesUp, FallsThrough, StartsCache, StartsWatch, At, Unused
  <2>2. request[r] = "tested" \/ Held(r)
    BY <2>1 DEF Held
  <2>3. UNCHANGED <<worker, installer>>
    BY <1>4 DEF RequestStep, Raises, GivesUp, FallsThrough, StartsCache, StartsWatch, Lists
  <2>4. watch = [watch EXCEPT ![r] = "none"]
    BY <1>0, <2>1 DEF TypeOK
  <2>5. CASE Raises(r)
    <3>1. /\ watch' = watch
          /\ \/ request' = [request EXCEPT ![r] = "done"] /\ activity_inprogess' = activity_inprogess
             \/ request' = [request EXCEPT ![r] = "raised"] /\ activity_inprogess' = TRUE
      BY <2>5 DEF Raises, Goto
    <3>2. request'[r] = "done" => ~Held(r)'
      BY <2>1, <3>1 DEF Held, Refusal
    <3>3. request'[r] = "done" \/ activity_inprogess' = TRUE
      BY <1>0, <3>1 DEF TypeOK
    <3>4. \E pc : request' = [request EXCEPT ![r] = pc] /\ pc # "tested"
      BY <3>1
    <3>5. \E pc : watch' = [watch EXCEPT ![r] = pc]
      BY <2>4, <3>1
    <3>6. \/ activity_inprogess' = TRUE
          \/ activity_inprogess' = activity_inprogess /\ (Held(r)' => Held(r))
      BY <3>1, <3>2, <3>3
    <3>7. QED  BY <1>2, <2>2, <2>3, <3>4, <3>5, <3>6
  <2>6. CASE GivesUp(r)
    <3>1. watch' = watch /\ request' = [request EXCEPT ![r] = "done"] /\ activity_inprogess' = FALSE
      BY <2>6 DEF GivesUp, Goto
    <3>2. ~Held(r)'
      BY <1>0, <2>1, <3>1 DEF Held, Refusal, TypeOK
    <3>3. \E pc : request' = [request EXCEPT ![r] = pc] /\ pc # "tested"
      <4>1. "done" # "tested"  OBVIOUS
      <4>2. QED  BY <3>1, <4>1, Zenon
    <3>4. \E pc : watch' = [watch EXCEPT ![r] = pc]
      BY <2>4, <3>1
    <3>5. QED  BY <1>2, <2>2, <2>3, <3>1, <3>2, <3>3, <3>4
  <2>7. CASE FallsThrough(r) \/ StartsCache(r) \/ StartsWatch(r)
    <3>1. Held(r) /\ activity_inprogess' = activity_inprogess
      BY <2>7 DEF FallsThrough, StartsCache, StartsWatch, At, Held
    <3>2. \E pc : request' = [request EXCEPT ![r] = pc] /\ pc # "tested"
      BY <2>7 DEF FallsThrough, StartsCache, StartsWatch, Goto
    <3>3. \E pc : watch' = [watch EXCEPT ![r] = pc]
      BY <2>4, <2>7 DEF FallsThrough, StartsCache, StartsWatch, Lists, Watch
    <3>4. QED  BY <1>2, <2>2, <2>3, <3>1, <3>2, <3>3
  <2>8. QED  BY <1>4, <2>5, <2>6, <2>7 DEF RequestStep
<1>5. ASSUME worker.pc # "idle" \/ (~activity_inprogess /\ \A r \in Requests : request[r] # "tested")
      PROVE  \A r \in Requests : ~In(r)
  BY <1>0, <1>5 DEF Solo, In
<1>6. CASE WorkerStarts
  <2>1. /\ activity_inprogess' = TRUE /\ worker.pc = "idle" /\ UNCHANGED <<request, watch, installer>>
        /\ ~activity_inprogess /\ \A r \in Requests : request[r] # "tested"
    BY <1>6 DEF WorkerStarts, MayStart, At
  <2>2. \A r \in Requests : ~In(r) /\ ~In(r)'
    BY <1>5, <2>1 DEF In, Held, Refusal
  <2>3. \A e \in Foreground : watch[e] \in {"none", "gone"}
    BY <1>0, <2>1 DEF Solo
  <2>4. QED  BY <1>0, <2>1, <2>2, <2>3 DEF Solo, In
<1>b. CASE WorkerResumes
  <2>1. /\ activity_inprogess' = TRUE /\ worker.pc = "asking" /\ UNCHANGED <<request, watch, installer>>
    BY <1>b DEF WorkerResumes
  <2>2. \A r \in Requests : ~In(r) /\ ~In(r)'
    BY <1>5, <2>1 DEF In, Held, Refusal
  <2>3. \A e \in Foreground : watch[e] \in {"none", "gone"}
    BY <1>0, <2>1 DEF Solo
  <2>4. QED  BY <1>0, <2>1, <2>2, <2>3 DEF Solo, In
<1>7. CASE WorkerStep
  <2>1. /\ worker.pc \notin {"idle", "asking"} /\ UNCHANGED <<request, installer>>
        /\ activity_inprogess \/ LoweredEarly'
    BY <1>0, <1>a, <1>7 DEF WorkerStep, WorkerAsks, WorkerNext, WorkerLists, WorkerBack, WorkerEnds, Solo
  <2>2. \A r \in Requests : ~In(r)
    BY <1>5, <2>1
  <2>3. \A r \in Requests : watch'[r] = watch[r]
    BY <1>0, <1>7 DEF WorkerStep, WorkerAsks, WorkerNext, WorkerLists, WorkerBack, WorkerEnds, Lists, Watch, Unused, TypeOK
  <2>4. \A r \in Requests : ~In(r)'
    BY <2>1, <2>2, <2>3 DEF In, Held, Refusal
  <2>5. CASE WorkerNext
    BY <1>0, <2>1, <2>4, <2>5 DEF WorkerNext, Solo, In
  <2>6. CASE WorkerLists
    <3>1. /\ worker' = [worker EXCEPT !.pc = "watch"] /\ watch' = [watch EXCEPT ![worker.entry] = "ask"]
          /\ worker.pc = "header" /\ activity_inprogess' = activity_inprogess
      BY <2>6 DEF WorkerLists, Lists, Watch
    <3>2. \A e \in Foreground : watch[e] \in {"none", "gone"}
      BY <1>0, <3>1 DEF Solo
    <3>3. worker'.pc = "watch" /\ worker'.entry = worker.entry
      BY <1>0, <3>1 DEF TypeOK
    <3>4. \A e \in Foreground : watch'[e] \in {"none", "gone"} \/ (watch'[e] = "ask" /\ e = worker.entry)
      BY <1>0, <3>1, <3>2 DEF TypeOK
    <3>5. QED  BY <1>0, <2>1, <2>4, <3>1, <3>3, <3>4 DEF Solo, In
  <2>7. CASE WorkerBack
    BY <1>0, <2>1, <2>4, <2>7 DEF WorkerBack, Solo, In
  <2>8. CASE WorkerAsks \/ WorkerEnds
    <3>1. worker.pc \in {"transfer", "loop"} /\ watch' = watch
      BY <2>8 DEF WorkerAsks, WorkerEnds
    <3>2. worker'.pc \in {"asking", "idle"}
      BY <1>0, <2>8 DEF WorkerAsks, WorkerEnds, TypeOK
    <3>3. \A e \in Foreground : watch[e] \in {"none", "gone"}
      BY <1>0, <3>1 DEF Solo
    <3>4. QED  BY <1>0, <2>1, <2>4, <3>1, <3>2, <3>3 DEF Solo, In
  <2>9. QED  BY <1>7, <2>5, <2>6, <2>7, <2>8 DEF WorkerStep
<1>8. ASSUME NEW i \in Installs, WatchStep(i)  PROVE Solo'
  <2>1. watch[i] \notin {"none", "gone"} /\ UNCHANGED <<request, worker>>
    BY <1>8 DEF WatchStep, Accepted, NotAccepted, SeesEnd, SeesError, StartsClean, Removes, Lowers
  <2>2. watch' = [watch EXCEPT ![i] = watch'[i]]
    BY <1>0, <1>8 DEF WatchStep, Accepted, NotAccepted, SeesEnd, SeesError, StartsClean, Removes, Lowers,
                      Watch, TypeOK
  <2>3. \A j \in Installs : j # i => watch'[j] = watch[j] /\ installer'[j] = installer[j]
    BY <1>0, <1>8 DEF WatchStep, Accepted, NotAccepted, SeesEnd, SeesError, StartsClean, Removes, Lowers,
                      Watch, TypeOK
  <2>4. CASE i \in Requests
    <3>1. Held(i) /\ worker.pc = "idle"
      BY <1>0, <2>1, <2>4 DEF Held, Solo, In
    <3>2. \A s \in Requests : s # i => ~In(s) /\ ~In(s)'
      <4>1. \A s \in Requests : s # i => ~In(s)
        BY <1>0, <2>4, <3>1 DEF Solo, In
      <4>2. QED  BY <1>0, <2>1, <2>3, <4>1 DEF In, Held, Refusal
    <3>3. \A e \in Foreground : watch'[e] = watch[e]
      BY <1>0, <2>3, <2>4
    <3>4. activity_inprogess /\ request[i] # "tested"
      BY <1>0, <2>4, <3>1 DEF Solo
    <3>5. activity_inprogess' \/ (activity_inprogess' = FALSE /\ ~Held(i)')
      <4>1. CASE Lowers(i)
        <5>1. watch'[i] = "gone" /\ activity_inprogess' = FALSE /\ installer'[i] = installer[i]
              /\ watch[i] = "lower"
          BY <1>0, <4>1 DEF Lowers, Watch, TypeOK
        <5>2. installer[i] # "none"
          BY <1>0, <2>4, <5>1 DEF Watched
        <5>3. request[i] = "done"
          BY <1>0, <2>1, <2>4 DEF Unused
        <5>4. QED  BY <2>1, <5>1, <5>2, <5>3 DEF Held, Refusal
      <4>2. CASE ~Lowers(i)
        <5>1. activity_inprogess' = activity_inprogess
          BY <1>8, <4>2 DEF WatchStep, Accepted, NotAccepted, SeesEnd, SeesError, StartsClean, Removes
        <5>2. QED  BY <3>4, <5>1
      <4>3. QED  BY <4>1, <4>2
    <3>6. QED  BY <1>0, <2>1, <3>1, <3>2, <3>3, <3>4, <3>5 DEF Solo, In
  <2>5. CASE i \in Foreground
    <3>1. worker.pc = "watch" /\ worker.entry = i /\ (activity_inprogess \/ LoweredEarly)
      BY <1>0, <2>1, <2>5 DEF Solo
    <3>2. \A r \in Requests : ~In(r)
      BY <1>5, <3>1
    <3>3. \A r \in Requests : ~In(r)'
      BY <1>0, <2>1, <2>3, <2>5, <3>2 DEF In, Held, Refusal
    <3>4. activity_inprogess' \/ LoweredEarly'
      <4>1. CASE Lowers(i)
        <5>1. i \in Packages
          BY <1>0, <2>5, <4>1 DEF Lowers, Solo
        <5>2. clean[i] # "none" /\ watch'[i] = "gone" /\ clean' = clean
          BY <1>0, <4>1 DEF Lowers, Watch, CleanedLast, TypeOK
        <5>3. QED  BY <5>1, <5>2 DEF LoweredEarly
      <4>2. CASE ~Lowers(i)
        <5>1. activity_inprogess' = activity_inprogess
          BY <1>8, <4>2 DEF WatchStep, Accepted, NotAccepted, SeesEnd, SeesError, StartsClean, Removes
        <5>2. QED  BY <1>a, <3>1, <5>1
      <4>3. QED  BY <4>1, <4>2
    <3>5. i \in Entries => watch'[i] # "lower"
      BY <1>0, <1>8, <2>5 DEF WatchStep, Accepted, NotAccepted, SeesEnd, SeesError, StartsClean, Removes,
                              Lowers, AfterRemove, AfterError, InForeground, Watch, TypeOK
    <3>6. \A e \in Foreground : e # i => watch'[e] = watch[e]
      BY <1>0, <2>3
    <3>7. QED  BY <1>0, <2>1, <3>1, <3>2, <3>3, <3>4, <3>5, <3>6 DEF Solo, In
  <2>6. QED  BY <1>0, <2>4, <2>5
<1>9. ASSUME UNCHANGED <<activity_inprogess, request, worker, watch>>,
             \A i \in Installs : installer'[i] = "none" => installer[i] = "none"
      PROVE  Solo'
  <2>1. \A r \in Requests : Held(r)' => Held(r)
    BY <1>0, <1>9 DEF Held, Refusal
  <2>2. \A r \in Requests : In(r)' => In(r)
    BY <1>9, <2>1 DEF In
  <2>3. QED  BY <1>0, <1>a, <1>9, <2>1, <2>2 DEF Solo
<1>10. ASSUME NEW i \in Installs, CleanStep(i) \/ WriterEnds(i)  PROVE Solo'
  BY <1>9, <1>10 DEF CleanStep, Closes, Joins, Frees, WriterEnds
<1>11. ASSUME NEW i \in Installs, InstallerStep(i)  PROVE Solo'
  <2>1. UNCHANGED <<activity_inprogess, request, worker, watch>>
    BY <1>11 DEF InstallerStep, LooksUp, Serves, Playable, Fails
  <2>2. \A j \in Installs : installer'[j] = "none" => installer[j] = "none"
    BY <1>0, <1>11 DEF InstallerStep, LooksUp, Serves, Playable, Fails, TypeOK
  <2>3. QED  BY <1>9, <2>1, <2>2
<1>12. CASE UNCHANGED vars
  BY <1>9, <1>12 DEF vars
<1>13. QED
  BY <1>1, <1>3, <1>4, <1>6, <1>b, <1>7, <1>8, <1>10, <1>11, <1>12 DEF Next

(* Whoever puts an install in the list is alone. *)
LEMMA ListsAlone ==
  ASSUME Shared, NEW i \in Installs,
         (i \in Requests /\ request[i] = "header") \/ (i \in Foreground /\ worker.pc = "header")
  PROVE  \A j \in Installs : watch[j] \in {"none", "gone"}
<1>0. Solo /\ TypeOK /\ Unused /\ Installs = Requests \cup Foreground
  BY SharedFacts
<1>1. CASE i \in Requests /\ request[i] = "header"
  <2>1. In(i) /\ worker.pc = "idle" /\ watch[i] = "none"
    BY <1>0, <1>1 DEF In, Held, Solo, Unused
  <2>2. \A j \in Requests : j # i => ~Held(j)
    BY <1>0, <1>1, <2>1 DEF Solo, In
  <2>3. \A j \in Requests : watch[j] \in {"none", "gone"}
    BY <2>1, <2>2 DEF Held
  <2>4. \A e \in Foreground : watch[e] \in {"none", "gone"}
    BY <1>0, <2>1 DEF Solo
  <2>5. QED  BY <1>0, <2>3, <2>4
<1>2. CASE i \in Foreground /\ worker.pc = "header"
  BY <1>0, <1>2 DEF Solo, In, Held
<1>3. QED  BY <1>1, <1>2

LEMMA WatchedStep ==
  ASSUME ~Racing, ~Misread, Shared, [Next]_vars
  PROVE  Watched'
<1> USE DEF threads, store, outside
<1>0. /\ TypeOK /\ Unused /\ CleanedLast /\ Solo /\ Watched
      /\ Installs = Requests \cup Foreground /\ Requests \cap Foreground = {}
      /\ Foreground = Entries \cup Packages
  BY SharedFacts
<1>1. ASSUME NEW r \in Requests, Refused(r) \/ Tested(r) \/ Raises(r) \/ GivesUp(r) \/ FallsThrough(r)
      PROVE  Watched'
  <2>1. /\ UNCHANGED <<worker, data, watch, list, installer, fetch>>
        /\ \E pc : request' = [request EXCEPT ![r] = pc] /\ pc # "header"
    BY <1>1 DEF Refused, Tested, Raises, GivesUp, FallsThrough, Goto
  <2>2. QED  BY <1>0, <2>1 DEF Watched, TypeOK
<1>2. ASSUME NEW r \in Requests, StartsCache(r)  PROVE Watched'
  BY <1>0, <1>2 DEF StartsCache, NewData, Goto, Watched, TypeOK
<1>3. ASSUME NEW i \in Installs, Lists(i), \A j \in Installs : watch[j] \in {"none", "gone"},
             watch[i] = "none", UNCHANGED <<data, installer, fetch>>
      PROVE  \A j \in Installs :
               /\ installer'[j] = "fetching" => watch'[j] = "poll"
               /\ watch'[j] \in {"none", "ask"} => installer'[j] = "none"
               /\ watch'[j] = "poll" => installer'[j] # "none"
               /\ fetch'[j].pc = "use" => installer'[j] = "fetching" /\ fetch'[j].found = j
               /\ watch'[j] \in {"ask", "poll", "clean"} => data'[j] = "live"
               /\ watch'[j] \in {"ask", "poll", "clean", "remove"} =>
                    Hash[j] \in DOMAIN list' /\ list'[Hash[j]] = j
  BY <1>0, <1>3 DEF Lists, Watch, Watched, TypeOK
<1>4. ASSUME NEW r \in Requests, StartsWatch(r)  PROVE Watched'
  <2>1. /\ Lists(r) /\ request[r] = "header" /\ watch[r] = "none" /\ r \in Installs
        /\ request' = [request EXCEPT ![r] = "done"] /\ watch' = [watch EXCEPT ![r] = "ask"]
        /\ UNCHANGED <<worker, data, installer, fetch>>
    BY <1>0, <1>4 DEF StartsWatch, At, Goto, Lists, Watch, Unused
  <2>2. \A j \in Installs : watch[j] \in {"none", "gone"}
    BY <2>1, ListsAlone
  <2>3. QED  BY <1>0, <1>3, <2>1, <2>2 DEF Watched, TypeOK
<1>5. CASE WorkerMoves
  <2>1. worker \in WorkerStates
    BY <1>0 DEF TypeOK, WorkerStates
  <2>2. UNCHANGED <<request, data, watch, list, installer, fetch>>
    BY <1>5 DEF WorkerMoves, WorkerStarts, WorkerAsks, WorkerResumes, WorkerBack, WorkerEnds
  <2>3. worker'.pc # "header"
    BY <1>5, <2>1, WorkerMovesTo
  <2>4. QED  BY <1>0, <2>2, <2>3 DEF Watched
<1>6. CASE WorkerNext
  BY <1>0, <1>6 DEF WorkerNext, NewData, Watched, TypeOK
<1>7. CASE WorkerLists
  <2>1. /\ Lists(worker.entry) /\ worker.pc = "header" /\ watch[worker.entry] = "none"
        /\ worker.entry \in Foreground /\ worker' = [worker EXCEPT !.pc = "watch"]
        /\ watch' = [watch EXCEPT ![worker.entry] = "ask"]
        /\ UNCHANGED <<request, data, installer, fetch>>
    BY <1>0, <1>7 DEF WorkerLists, Lists, Watch, Unused
  <2>2. \A j \in Installs : watch[j] \in {"none", "gone"}
    BY <1>0, <2>1, ListsAlone
  <2>3. QED  BY <1>0, <1>3, <2>1, <2>2 DEF Watched, TypeOK
<1>8. ASSUME NEW i \in Installs, Accepted(i)  PROVE Watched'
  BY <1>0, <1>8 DEF Accepted, Watch, Watched, TypeOK
<1>9. ASSUME NEW i \in Installs, NotAccepted(i)  PROVE Watched'
  BY <1>0, <1>9 DEF NotAccepted, InForeground, Watch, Watched, TypeOK
<1>10. ASSUME NEW i \in Installs, SeesEnd(i) \/ SeesError(i)  PROVE Watched'
  BY <1>0, <1>10 DEF SeesEnd, SeesError, Ended, AfterError, Watch, Watched, TypeOK
<1>11. ASSUME NEW i \in Installs, StartsClean(i)  PROVE Watched'
  BY <1>0, <1>11 DEF StartsClean, Watch, Watched, TypeOK
<1>12. ASSUME NEW i \in Installs, Removes(i)  PROVE Watched'
  <2>1. \A j \in Installs : j # i => watch[j] \in {"none", "gone", "lower"}
    BY <1>0, <1>12 DEF Removes, Solo, In, Held
  <2>2. watch[i] = "remove" /\ watch' = [watch EXCEPT ![i] = AfterRemove(i)]
    BY <1>12 DEF Removes, Watch
  <2>3. QED  BY <1>0, <1>12, <2>1, <2>2 DEF Removes, AfterRemove, InForeground, Watched, TypeOK
<1>13. ASSUME NEW i \in Installs, Lowers(i)  PROVE Watched'
  BY <1>0, <1>13 DEF Lowers, Watch, Watched, TypeOK
<1>14. ASSUME NEW i \in Installs, Closes(i) \/ Joins(i) \/ WriterEnds(i)  PROVE Watched'
  BY <1>0, <1>14 DEF Closes, Joins, WriterEnds, Watched
<1>15. ASSUME NEW i \in Installs, Frees(i)  PROVE Watched'
  <2>1. watch[i] \in {"remove", "lower", "gone"} /\ data' = [data EXCEPT ![i] = "freed"]
        /\ UNCHANGED <<request, worker, watch, list, installer, fetch>>
    BY <1>0, <1>15 DEF Frees, CleanedLast
  <2>2. i \in Requests => request[i] # "header"
    BY <1>0, <2>1 DEF Unused
  <2>3. worker.pc = "header" => worker.entry # i /\ worker.entry \in Installs
    BY <1>0, <2>1 DEF Unused
  <2>4. QED  BY <1>0, <2>1, <2>2, <2>3 DEF Watched, TypeOK
<1>16. ASSUME NEW i \in Installs, LooksUp(i)  PROVE Watched'
  BY <1>0, <1>16 DEF LooksUp, Found, Watched, TypeOK
<1>17. ASSUME NEW i \in Installs, Serves(i)  PROVE Watched'
  BY <1>0, <1>17 DEF Serves, Watched, TypeOK
<1>18. ASSUME NEW i \in Installs, Playable(i) \/ Fails(i)  PROVE Watched'
  BY <1>0, <1>18 DEF Playable, Fails, NoFetch, Watched, TypeOK
<1>19. CASE UNCHANGED vars
  BY <1>0, <1>19 DEF vars, Watched
<1>20. QED
  BY <1>1, <1>2, <1>4, <1>5, <1>6, <1>7, <1>8, <1>9, <1>10, <1>11, <1>12, <1>13, <1>14, <1>15, <1>16,
     <1>17, <1>18, <1>19 DEF Next, RequestStep, WorkerStep, WorkerMoves, WatchStep, CleanStep, InstallerStep

LEMMA SharedInit == Init => Shared
<1> SUFFICES ASSUME Init  PROVE Shared
  OBVIOUS
<1>1. \A r \in Requests : request[r] \in {"idle", "done"}
  BY DEF Init
<1>2. worker.pc = "idle"
  BY DEF Init
<1>3. \A i \in Installs : /\ watch[i] = "none" /\ installer[i] = "none" /\ fetch[i].pc = "none"
  BY DEF Init, NoFetch
<1>4. Solo
  BY <1>1, <1>2, <1>3 DEF Solo, In, Held, Refusal, Installs, Foreground
<1>5. Watched
  BY <1>1, <1>2, <1>3 DEF Watched, Installs
<1>6. QED  BY <1>4, <1>5, BaseInit DEF Shared

THEOREM SharedAlways ==
  ASSUME ~Racing, ~Misread
  PROVE  Spec => []Shared
<1>1. Shared /\ [Next]_vars => Shared'
  BY TypesStep, UnusedStep, CleanedLastStep, SoloStep, WatchedStep DEF Shared, Base
<1>2. QED  BY SharedInit, <1>1, PTL DEF Spec

(* While a package is being installed the activity flag is up, whatever is refused, *)
(* fails or is abandoned - except for what a worker installs after a package that   *)
(* lowered the flag.  It rests on nothing being started while another thread will   *)
(* still raise or lower the flag, and on the watching ending with the installing:   *)
(* CheckBgInstallTaskThread, InstallSplitPkg, InstallArchivePkg, install_url.       *)
THEOREM FlagHolds ==
  ASSUME ~Racing, ~Misread
  PROVE  Spec => []FlagCovers
<1>1. Shared => FlagCovers
  <2> SUFFICES ASSUME Shared, NEW i \in Installs, Busy(i)
               PROVE  activity_inprogess \/ (InForeground(i) /\ LoweredEarly)
    BY DEF FlagCovers
  <2>0. Solo /\ Watched /\ Installs = Requests \cup Foreground /\ Foreground = Entries \cup Packages
    BY SharedFacts
  <2>1. watch[i] \notin {"none", "gone"}
    BY <2>0 DEF Busy, Watched
  <2>2. CASE i \in Requests
    BY <2>0, <2>1, <2>2 DEF Solo, Held
  <2>3. CASE i \in Foreground
    BY <2>0, <2>1, <2>3 DEF Solo, InForeground
  <2>4. QED  BY <2>0, <2>2, <2>3
<1>2. QED  BY <1>1, SharedAlways, PTL

(* The installer is served from the split file of its own install, which is not  *)
(* freed meanwhile, for any number of installs of the same URL one after the     *)
(* other: http_server.cpp looks the file up by the hash of the URL alone.        *)
THEOREM OwnData ==
  ASSUME ~Racing, ~Misread
  PROVE  Spec => []ServedByOwn
<1>1. Shared => ServedByOwn
  BY SharedFacts DEF Watched, ServedByOwn
<1>2. QED  BY <1>1, SharedAlways, PTL

-----------------------------------------------------------------------------
(***************************************************************************)
(* The list.  An install is found under its own hash and, until the entry  *)
(* is erased, is being watched, was refused or was given up.               *)
(***************************************************************************)
Wanted(i) ==
  \/ watch[i] \in {"ask", "poll", "clean", "remove"}
  \/ i \in Requests /\ Refusal(i)
  \/ GivenUp(i)

Listed == \A i \in Installs : \A h \in DOMAIN list : list[h] = i => h = Hash[i] /\ Wanted(i)

LEMMA ListedStep ==
  ASSUME ~Misread, Shared, Listed, [Next]_vars
  PROVE  Listed'
<1> USE DEF threads, store, outside
<1>0. /\ TypeOK /\ Unused /\ CleanedLast /\ Watched /\ Installs = Requests \cup Foreground
      /\ Requests \cap Foreground = {} /\ Foreground = Entries \cup Packages
      /\ \A h \in DOMAIN list : list[h] \in Installs \cup {None}
  BY SharedFacts DEF TypeOK
<1>1. ASSUME list' = list,
             \A j \in Installs : Wanted(j) => Wanted(j)'
      PROVE  Listed'
  BY <1>0, <1>1 DEF Listed
<1>2. ASSUME NEW r \in Requests,
             Refused(r) \/ Tested(r) \/ Raises(r) \/ GivesUp(r) \/ FallsThrough(r) \/ StartsCache(r)
      PROVE  Listed'
  <2>1. UNCHANGED <<watch, clean, list, installer>>
    BY <1>2 DEF Refused, Tested, Raises, GivesUp, FallsThrough, StartsCache
  <2>2. QED  BY <1>1, <2>1 DEF Listed, Wanted, Refusal, GivenUp
<1>3. CASE WorkerMoves \/ WorkerNext
  <2>1. UNCHANGED <<watch, clean, list, installer>>
    BY <1>3 DEF WorkerMoves, WorkerStarts, WorkerAsks, WorkerResumes, WorkerNext, WorkerBack, WorkerEnds
  <2>2. QED  BY <1>1, <2>1 DEF Listed, Wanted, Refusal, GivenUp
<1>4. ASSUME NEW i \in Installs, Lists(i), watch[i] = "none", UNCHANGED <<clean, installer>>
      PROVE  Listed'
  <2>1. watch' = [watch EXCEPT ![i] = "ask"] /\ watch'[i] = "ask"
    BY <1>0, <1>4 DEF Lists, Watch, TypeOK
  <2>2. \A j \in Installs : Wanted(j) => Wanted(j)'
    BY <1>0, <1>4, <2>1 DEF Wanted, Refusal, GivenUp, TypeOK
  <2>3. Wanted(i)'
    BY <2>1 DEF Wanted
  <2>4. ASSUME NEW j \in Installs, NEW h \in DOMAIN list', list'[h] = j
        PROVE  h = Hash[j] /\ Wanted(j)'
    <3>1. CASE h = Hash[i]
      BY <1>4, <2>3, <2>4, <3>1 DEF Lists
    <3>2. CASE h # Hash[i]
      <4>1. h \in DOMAIN list /\ list[h] = j
        BY <1>4, <2>4, <3>2 DEF Lists
      <4>2. QED  BY <2>2, <4>1 DEF Listed
    <3>3. QED  BY <3>1, <3>2
  <2>5. QED  BY <2>4 DEF Listed
<1>5. ASSUME NEW r \in Requests, StartsWatch(r)  PROVE Listed'
  <2>1. r \in Installs /\ Lists(r) /\ watch[r] = "none" /\ UNCHANGED <<clean, installer>>
    BY <1>0, <1>5 DEF StartsWatch, At, Unused
  <2>2. QED  BY <1>4, <2>1
<1>6. CASE WorkerLists
  <2>1. /\ worker.entry \in Installs /\ Lists(worker.entry) /\ watch[worker.entry] = "none"
        /\ UNCHANGED <<clean, installer>>
    BY <1>0, <1>6 DEF WorkerLists, Unused
  <2>2. QED  BY <1>4, <2>1
<1>7. ASSUME NEW i \in Installs, Accepted(i)  PROVE Listed'
  <2>1. /\ list' = list /\ watch[i] = "ask" /\ watch' = [watch EXCEPT ![i] = "poll"]
        /\ installer' = [installer EXCEPT ![i] = "fetching"] /\ clean' = clean
    BY <1>7 DEF Accepted, Watch
  <2>2. \A j \in Installs : Wanted(j) => Wanted(j)'
    BY <1>0, <2>1 DEF Wanted, Refusal, GivenUp, TypeOK
  <2>3. QED  BY <1>1, <2>1, <2>2
<1>8. ASSUME NEW i \in Installs, NotAccepted(i)  PROVE Listed'
  <2>1. /\ list' = list /\ UNCHANGED <<clean, installer>> /\ watch[i] = "ask" /\ installer[i] = "none"
        /\ watch' = [watch EXCEPT ![i] = IF InForeground(i) THEN "clean" ELSE "gone"]
    BY <1>0, <1>8 DEF NotAccepted, Watch, Watched
  <2>2. Wanted(i)'
    BY <1>0, <2>1 DEF Wanted, Refusal, GivenUp, InForeground, TypeOK
  <2>3. \A j \in Installs : Wanted(j) => Wanted(j)'
    BY <1>0, <2>1, <2>2 DEF Wanted, Refusal, GivenUp, TypeOK
  <2>4. QED  BY <1>1, <2>1, <2>3 DEF Listed
<1>9. ASSUME NEW i \in Installs, SeesEnd(i) \/ SeesError(i) \/ StartsClean(i)  PROVE Listed'
  <2>1. list' = list /\ installer' = installer
    BY <1>9 DEF SeesEnd, SeesError, StartsClean
  <2>2. /\ watch' = [watch EXCEPT ![i] = watch'[i]]
        /\ \A j \in Installs : j # i => clean'[j] = clean[j]
    BY <1>0, <1>9 DEF SeesEnd, SeesError, StartsClean, Watch, TypeOK
  <2>3. Wanted(i)'
    <3>1. CASE SeesError(i) /\ InForeground(i)
      <4>1. watch[i] = "poll" /\ installer[i] = "error" /\ watch'[i] = "gone" /\ clean' = clean
        BY <1>0, <3>1 DEF SeesError, AfterError, Watch, TypeOK
      <4>2. clean[i] = "none"
        BY <1>0, <4>1 DEF CleanedLast
      <4>3. QED  BY <2>1, <3>1, <4>1, <4>2 DEF Wanted, GivenUp
    <3>2. CASE ~(SeesError(i) /\ InForeground(i))
      <4>1. watch'[i] \in {"clean", "remove"}
        BY <1>0, <1>9, <3>2 DEF SeesEnd, SeesError, StartsClean, AfterError, Watch, TypeOK
      <4>2. QED  BY <4>1 DEF Wanted
    <3>3. QED  BY <3>1, <3>2
  <2>4. \A j \in Installs : j # i => watch'[j] = watch[j]
    BY <1>0, <2>2 DEF TypeOK
  <2>5. \A j \in Installs : Wanted(j) => Wanted(j)'
    BY <2>1, <2>2, <2>3, <2>4 DEF Wanted, Refusal, GivenUp
  <2>6. QED  BY <1>1, <2>1, <2>5
<1>10. ASSUME NEW i \in Installs, Removes(i)  PROVE Listed'
  <2>1. /\ UNCHANGED <<clean, installer>> /\ list' = [h \in DOMAIN list \ {Hash[i]} |-> list[h]]
        /\ \E pc : watch' = [watch EXCEPT ![i] = pc]
    BY <1>10 DEF Removes, Erased, Watch
  <2>2. \A j \in Installs : j # i /\ Wanted(j) => Wanted(j)'
    BY <1>0, <2>1 DEF Wanted, Refusal, GivenUp, TypeOK
  <2>3. ASSUME NEW j \in Installs, NEW h \in DOMAIN list', list'[h] = j
        PROVE  h = Hash[j] /\ Wanted(j)'
    <3>1. h \in DOMAIN list /\ h # Hash[i] /\ list[h] = j
      BY <2>1, <2>3
    <3>2. h = Hash[j] /\ Wanted(j) /\ j # i
      BY <3>1 DEF Listed
    <3>3. QED  BY <2>2, <3>2
  <2>4. QED  BY <2>1, <2>3 DEF Listed
<1>11. ASSUME NEW i \in Installs, Lowers(i)  PROVE Listed'
  <2>1. /\ list' = list /\ UNCHANGED <<clean, installer>> /\ watch[i] = "lower"
        /\ watch' = [watch EXCEPT ![i] = "gone"]
    BY <1>11 DEF Lowers, Watch
  <2>2. \A j \in Installs : Wanted(j) => Wanted(j)'
    BY <1>0, <2>1 DEF Wanted, Refusal, GivenUp, TypeOK
  <2>3. QED  BY <1>1, <2>1, <2>2 DEF Listed
<1>17. ASSUME NEW i \in Installs, CleanStep(i)  PROVE Listed'
  <2>1. /\ UNCHANGED <<watch, list, installer>> /\ clean[i] # "none"
        /\ \A j \in Installs : j # i => clean'[j] = clean[j]
    BY <1>0, <1>17 DEF CleanStep, Closes, Joins, Frees, TypeOK
  <2>2. \A j \in Installs : Wanted(j) => Wanted(j)'
    BY <2>1 DEF Wanted, Refusal, GivenUp
  <2>3. QED  BY <1>1, <2>1, <2>2
<1>12. ASSUME NEW i \in Installs, WriterEnds(i) \/ Serves(i)  PROVE Listed'
  <2>1. UNCHANGED <<watch, clean, list, installer>>
    BY <1>12 DEF WriterEnds, Serves
  <2>2. QED  BY <1>1, <2>1 DEF Listed, Wanted, Refusal, GivenUp
<1>13. ASSUME NEW i \in Installs, LooksUp(i)  PROVE Listed'
  <2>1. UNCHANGED <<watch, clean, installer>>
    BY <1>13 DEF LooksUp
  <2>2. \A j \in Installs : \A h \in DOMAIN list' : list'[h] = j => h \in DOMAIN list /\ list[h] = j
    BY <1>13, PkgInstallAssumption DEF LooksUp
  <2>3. QED  BY <2>1, <2>2 DEF Listed, Wanted, Refusal, GivenUp
<1>14. ASSUME NEW i \in Installs, Playable(i) \/ Fails(i)  PROVE Listed'
  <2>1. /\ UNCHANGED <<watch, clean, list>> /\ installer[i] = "fetching"
        /\ \/ installer' = [installer EXCEPT ![i] = "playable"]
           \/ installer' = [installer EXCEPT ![i] = "error"]
    BY <1>14 DEF Playable, Fails
  <2>2. \A j \in Installs : Wanted(j) => Wanted(j)'
    BY <1>0, <2>1 DEF Wanted, Refusal, GivenUp, TypeOK
  <2>3. QED  BY <1>1, <2>1, <2>2
<1>15. CASE UNCHANGED vars
  <2>1. UNCHANGED <<watch, clean, list, installer>>
    BY <1>15 DEF vars
  <2>2. QED  BY <1>1, <2>1 DEF Listed, Wanted, Refusal, GivenUp
<1>16. QED
  BY <1>2, <1>3, <1>5, <1>6, <1>7, <1>8, <1>9, <1>10, <1>11, <1>12, <1>13, <1>14, <1>15, <1>17
     DEF Next, RequestStep, WorkerStep, WorkerMoves, WatchStep, InstallerStep

(* When the activity flag is down no install can be found by its hash, so that the *)
(* next install of the same URL meets no entry of the one before: but that of a     *)
(* package the installer gave up, which the worker leaves in the list, and of those *)
(* that a worker installs after lowering the flag.  It rests on what FlagHolds      *)
(* rests on: InstallArchivePkg, InstallSplitPkg.                                    *)
THEOREM NothingListed ==
  ASSUME ~Racing, ~Misread
  PROVE  Spec => []ListCleared
<1>1. Init => Listed
  BY DEF Init, Listed
<1>2. Listed /\ Shared /\ [Next]_vars => Listed'
  BY ListedStep
<1>3. Shared /\ Listed => ListCleared
  <2> SUFFICES ASSUME Shared, Listed, ~activity_inprogess, NEW h \in DOMAIN list, list[h] # None
               PROVE  GivenUp(list[h]) \/ (InForeground(list[h]) /\ worker.pc # "idle" /\ LoweredEarly)
    BY DEF ListCleared
  <2>1. Solo /\ TypeOK /\ Installs = Requests \cup Foreground /\ Foreground = Entries \cup Packages
    BY SharedFacts
  <2>2. Wanted(list[h]) /\ list[h] \in Installs
    BY <2>1 DEF Listed, TypeOK
  <2>3. CASE list[h] \in Requests
    BY <2>1, <2>2, <2>3 DEF Solo, Held, Wanted
  <2>4. CASE list[h] \in Foreground /\ list[h] \notin Requests
    BY <2>1, <2>2, <2>4 DEF Solo, Wanted, InForeground
  <2>5. QED  BY <2>1, <2>2, <2>3, <2>4
<1>4. QED  BY <1>1, <1>2, <1>3, SharedAlways, PTL DEF Spec

-----------------------------------------------------------------------------
(***************************************************************************)
(* One reader of the archive.  The worker watches the entry it has listed  *)
(* until the installer is done with it, and the installer is done with it  *)
(* only when the writer has closed the split file: the clean-up thread,    *)
(* which closes it too, comes after.                                       *)
(***************************************************************************)
Alone ==
  \A e \in Entries :
    /\ e \in worker.left => writer[e] = "none" /\ ~closed[e]
    /\ watch[e] \notin {"none", "gone"} => worker.pc = "watch" /\ worker.entry = e
    /\ watch[e] \in {"none", "ask"} => installer[e] = "none"
    /\ installer[e] = "fetching" => watch[e] = "poll"
    /\ installer[e] = "none" => watch[e] # "poll"
    /\ installer[e] = "playable" => writer[e] = "ended"
    /\ closed[e] => writer[e] = "ended" \/ watch[e] \in {"remove", "lower", "gone"}

LEMMA AloneStep ==
  ASSUME ~Misread, Base, Alone, [Next]_vars
  PROVE  Alone'
<1> USE DEF threads, store, outside
<1>0. /\ TypeOK /\ Unused /\ CleanedLast /\ Alone
      /\ Installs = Requests \cup Foreground /\ Requests \cap Foreground = {}
      /\ Foreground = Entries \cup Packages
  BY PkgInstallAssumption DEF Base, Installs, Foreground
<1>1. ASSUME NEW r \in Requests,
             Refused(r) \/ Tested(r) \/ Raises(r) \/ GivesUp(r) \/ FallsThrough(r)
      PROVE  Alone'
  BY <1>0, <1>1 DEF Refused, Tested, Raises, GivesUp, FallsThrough, Alone
<1>2. ASSUME NEW r \in Requests, StartsCache(r)  PROVE Alone'
  BY <1>0, <1>2 DEF StartsCache, NewData, Alone, TypeOK
<1>3. ASSUME NEW r \in Requests, StartsWatch(r)  PROVE Alone'
  BY <1>0, <1>3 DEF StartsWatch, Lists, Watch, Alone, TypeOK
<1>4. CASE WorkerMoves
  <2>1. /\ worker.pc = "watch" => watch[worker.entry] = "gone"
        /\ UNCHANGED <<writer, closed, watch, installer>>
    BY <1>4 DEF WorkerMoves, WorkerStarts, WorkerAsks, WorkerResumes, WorkerBack, WorkerEnds
  <2>2. worker'.left \in {worker.left, {}}
    <3>1. worker \in WorkerStates
      BY <1>0 DEF TypeOK, WorkerStates
    <3>2. QED  BY <1>4, <3>1, WorkerMovesTo
  <2>3. \A e \in Entries : watch[e] \in {"none", "gone"}
    BY <1>0, <2>1 DEF Alone
  <2>4. QED  BY <1>0, <2>1, <2>2, <2>3 DEF Alone
<1>5. CASE WorkerNext
  <2>1. PICK e \in worker.left :
          /\ worker' = [pc |-> "header", left |-> worker.left \ {e}, entry |-> e]
          /\ writer' = [writer EXCEPT ![e] = "writing"]
          /\ UNCHANGED <<closed, watch, installer>>
    BY <1>5 DEF WorkerNext, NewData
  <2>2. \A d \in Entries : watch[d] \in {"none", "gone"}
    BY <1>0, <1>5 DEF Alone, WorkerNext
  <2>3. e \in Installs /\ (e \in Entries => installer[e] = "none")
    BY <1>0 DEF TypeOK, Unused, Alone
  <2>4. QED  BY <1>0, <2>1, <2>2, <2>3 DEF Alone, TypeOK
<1>6. CASE WorkerLists
  <2>1. /\ watch' = [watch EXCEPT ![worker.entry] = "ask"] /\ worker' = [worker EXCEPT !.pc = "watch"]
        /\ worker.entry \in Foreground /\ watch[worker.entry] = "none"
        /\ UNCHANGED <<writer, closed, installer>>
    BY <1>0, <1>6 DEF WorkerLists, Lists, Watch, Unused
  <2>2. \A e \in Entries : watch[e] \in {"none", "gone"}
    BY <1>0, <1>6 DEF Alone, WorkerLists
  <2>3. QED  BY <1>0, <2>1, <2>2 DEF Alone, TypeOK
<1>7. ASSUME NEW i \in Installs, Accepted(i) \/ NotAccepted(i)  PROVE Alone'
  BY <1>0, <1>7 DEF Accepted, NotAccepted, InForeground, Watch, Alone, TypeOK
<1>8. ASSUME NEW i \in Installs, SeesEnd(i) \/ SeesError(i)  PROVE Alone'
  BY <1>0, <1>8 DEF SeesEnd, SeesError, Ended, AfterError, InForeground, Watch, Alone, TypeOK
<1>9. ASSUME NEW i \in Installs, StartsClean(i) \/ Removes(i) \/ Lowers(i)  PROVE Alone'
  BY <1>0, <1>9 DEF StartsClean, Removes, Lowers, AfterRemove, InForeground, Watch, Alone, TypeOK
<1>10. ASSUME NEW i \in Installs, Closes(i)  PROVE Alone'
  BY <1>0, <1>10 DEF Closes, CleanedLast, Unused, Alone, TypeOK
<1>11. ASSUME NEW i \in Installs, WriterEnds(i)  PROVE Alone'
  BY <1>0, <1>11 DEF WriterEnds, Alone, TypeOK
<1>12. ASSUME NEW i \in Installs, Joins(i) \/ Frees(i) \/ LooksUp(i) \/ Serves(i)  PROVE Alone'
  BY <1>0, <1>12 DEF Joins, Frees, LooksUp, Serves, Alone
<1>13. ASSUME NEW i \in Installs, Playable(i) \/ Fails(i)  PROVE Alone'
  BY <1>0, <1>13 DEF Playable, Fails, Alone, TypeOK
<1>14. CASE UNCHANGED vars
  BY <1>0, <1>14 DEF vars, Alone
<1>15. QED
  BY <1>1, <1>2, <1>3, <1>4, <1>5, <1>6, <1>7, <1>8, <1>9, <1>10, <1>11, <1>12, <1>13, <1>14
     DEF Next, RequestStep, WorkerStep, WorkerMoves, WatchStep, CleanStep, InstallerStep

(* The worker goes on in its archive only when no writer reads it, except that of  *)
(* a package the installer has refused or given up - even if requests race with    *)
(* each other and with the worker for the activity flag.  It rests on the watching *)
(* ending with the installing: InstallArchivePkg.                                  *)
THEOREM ArchiveReadOnce ==
  ASSUME ~Misread
  PROVE  Spec => []OneArchiveReader
<1>1. Init => Alone
  <2> SUFFICES ASSUME Init  PROVE Alone
    OBVIOUS
  <2>1. \A e \in Entries : /\ writer[e] = "none" /\ ~closed[e] /\ watch[e] = "none" /\ installer[e] = "none"
    BY DEF Init, Installs
  <2>2. QED  BY <2>1 DEF Alone
<1>2. Alone /\ Base /\ [Next]_vars => Alone'
  BY AloneStep
<1>3. Alone /\ Base => OneArchiveReader
  BY DEF Alone, OneArchiveReader, Base, TypeOK, Installs
<1>4. QED  BY <1>1, <1>2, <1>3, BaseAlways, PTL DEF Spec
=============================================================================
