-------------------------------- MODULE Storage --------------------------------
(***************************************************************************)
(* app/storage.c: storageTask owns the flash, and debugTask talks to it    *)
(* through a retained file mailbox, a forecast transaction, a format       *)
(* request and one wake queue of length one.                               *)
(*                                                                         *)
(* The two tasks have the same priority (osPriorityBelowNormal) and share  *)
(* the processor by time slicing, so every interleaving of their critical  *)
(* sections is possible.  An action is one critical section, together with *)
(* the private work around it that the other task cannot see.  `storage'   *)
(* is the program counter of storageTask; debugTask's clients, which are   *)
(* app/file_transfer.c, app/forecast_protocol.c and app/debug.c, are the   *)
(* variables whose name starts with d.                                     *)
(***************************************************************************)
EXTENDS FileEngine

CONSTANT Batches          \* the forecast batches a peer may send
CONSTANT PeerOps          \* bound: the file operations a peer asks for
CONSTANT PeerModes        \* bound: the power modes it asks for, TRUE for HOLD
CONSTANTS NoBatch, BadFile  \* no /forecast.bin; one that does not decode

FileOps == EngineOps \cup {"SELFTEST"}

ASSUME PeerOpsAssumption == PeerOps \subseteq FileOps
ASSUME PeerModesAssumption == PeerModes \subseteq BOOLEAN
ASSUME BatchesAssumption == NoBatch \notin Batches /\ BadFile \notin Batches

VARIABLES
  storage,         \* program counter of s_storage_task
  plan,            \* its locals restore_runnable and wait
  scanning,        \* scan.running
  engine,          \* state of file_store.c, private to storageTask
  files,           \* s_files: the copy of the engine's state under the lock
  fileState,       \* s_file_state
  fileOwner,       \* s_file_owner
  session,         \* s_maintenance_session
  fileRequest,     \* s_file_request, shared scratch: whose, which operation
  fileResponse,    \* s_file_response, shared scratch: whose, which operation
  forecastState,   \* s_forecast_state
  forecastReady,   \* s_forecast.ready
  forecastOk,      \* s_forecast.result is FILE_STORE_OK
  candidate,       \* s_forecast_candidate
  configReady,     \* s_config.ready
  configBusy,      \* s_config.busy
  queue,           \* s_request_queue: "empty", "wake" (token zero) or "config"
  paused,          \* s_scan_paused
  hold,            \* power mode is POWER_MODE_HOLD
  veto,            \* POWER_BLOCK_STORAGE is set
  saved,           \* what /forecast.bin holds on flash
  published,       \* the batch forecast.c publishes from RAM
  dmode,           \* file_transfer: console, text command, binary session, cleanup
  dreq,            \* its s_request.operation while s_pending or not yet answered
  dforecast,       \* forecast_protocol: s_pending
  dconfig,         \* debug.c: s_pending_token
  dwake,           \* debugTask has left the lock and not yet sent its wake
  dnext            \* where debugTask continues

engineVars   == <<engine, saved, published>>
mailboxVars  == <<files, fileState, fileOwner, session, fileRequest, fileResponse>>
forecastVars == <<forecastState, forecastReady, forecastOk, candidate>>
configVars   == <<configReady, configBusy>>
modeVars     == <<paused, hold>>
localVars    == <<storage, plan, scanning, veto>>
debugVars    == <<dmode, dreq, dforecast, dconfig, dwake, dnext>>

vars == <<engineVars, mailboxVars, forecastVars, configVars, modeVars, localVars,
          debugVars, queue>>

StorageSteps == {"boot", "load", "mount", "top", "reinit", "runnable", "wait", "veto",
                 "receive", "save", "process", "forecast", "forecastStep", "execute",
                 "step", "publish"}
ForecastRunning == {"PENDING", "WRITE", "COMMIT", "VERIFY", "CLEANUP"}
ForecastStates == ForecastRunning \cup {"RESTORE", "IDLE", "COMPLETE"}

Plan     == [restore : BOOLEAN, wait : {"short", "long"}]
Snapshot == [state : EngineStates, upload : BOOLEAN]
Scratch  == [by : Users \cup {"none"}, op : FileOps]

TypeOK ==
  /\ storage \in StorageSteps
  /\ plan \in Plan
  /\ scanning \in BOOLEAN
  /\ engine \in Engine
  /\ files \in Snapshot
  /\ fileState \in {"IDLE", "PENDING", "RUNNING", "COMPLETE"}
  /\ fileOwner \in {"NONE", "MAINTENANCE", "FORECAST"}
  /\ session \in BOOLEAN
  /\ fileRequest \in Scratch
  /\ fileResponse \in Scratch
  /\ forecastState \in ForecastStates
  /\ forecastReady \in BOOLEAN
  /\ forecastOk \in BOOLEAN
  /\ candidate \in Batches \cup {NoBatch}
  /\ configReady \in BOOLEAN /\ configBusy \in BOOLEAN
  /\ queue \in {"empty", "wake", "config"}
  /\ paused \in BOOLEAN /\ hold \in BOOLEAN /\ veto \in BOOLEAN
  /\ saved \in Batches \cup {NoBatch, BadFile}
  /\ published \in Batches \cup {NoBatch}
  /\ dmode \in {"console", "text", "binary", "closing", "cancelling"}
  /\ dreq \in FileOps \cup {"none"}
  /\ dforecast \in BOOLEAN /\ dconfig \in BOOLEAN /\ dwake \in BOOLEAN
  /\ dnext \in {"loop", "submit", "taken", "sendConfig", "pause"}

-----------------------------------------------------------------------------
NoPlan == [restore |-> FALSE, wait |-> "short"]

Init ==
  /\ storage = "boot"
  /\ plan = NoPlan
  /\ scanning = FALSE
  /\ engine = Fresh("UNAVAILABLE", 0)
  /\ files = [state |-> "UNAVAILABLE", upload |-> FALSE]
  /\ fileState = "IDLE" /\ fileOwner = "NONE" /\ session = FALSE
  /\ fileRequest = [by |-> "none", op |-> "SIMPLE"]
  /\ fileResponse = [by |-> "none", op |-> "SIMPLE"]
  /\ forecastState = "RESTORE" /\ forecastReady = FALSE /\ forecastOk = FALSE
  /\ candidate = NoBatch
  /\ configReady = FALSE /\ configBusy = FALSE
  /\ queue = "empty" /\ paused = FALSE /\ hold = FALSE /\ veto = TRUE
  /\ saved \in Batches \cup {NoBatch, BadFile}
  /\ published = NoBatch
  /\ dmode = "console" /\ dreq = "none" /\ dforecast = FALSE /\ dconfig = FALSE
  /\ dwake = FALSE /\ dnext = "loop"

Uploading(f) == f.upload # "none"

(* Mutant of RestoreRunnable: the restore does not look at the file mailbox. *)
RestoreRunnableAtOnce == forecastState = "RESTORE" /\ files.state # "INITIALIZING"

RestoreRunnable ==
  /\ forecastState = "RESTORE" /\ files.state # "INITIALIZING"
  /\ fileOwner = "NONE" /\ fileState = "IDLE"
ScanRunnable == scanning /\ ~paused /\ hold /\ ~files.upload

-----------------------------------------------------------------------------
(* storageTask: boot *)

(* The scan is paused in the default AUTO mode before anything else.       *)
Boot ==
  /\ storage = "boot"
  /\ storage' = "load"
  /\ paused' = ~hold
  /\ veto' = TRUE
  /\ UNCHANGED <<engineVars, mailboxVars, forecastVars, configVars, debugVars, queue,
                 hold, plan, scanning>>

LoadConfig ==
  /\ storage = "load"
  /\ storage' = "mount"
  /\ scanning' \in BOOLEAN
  /\ configReady' = TRUE
  /\ UNCHANGED <<engineVars, mailboxVars, forecastVars, configBusy, modeVars, debugVars,
                 queue, plan, veto>>

(* file_store_init, then s_files_publish.  A device whose identification   *)
(* failed is not mounted, nor one whose configuration could not be read.   *)
Mount ==
  /\ storage = "mount"
  /\ storage' = "top"
  /\ \E e \in UNION {InitEngines(online) : online \in {FALSE, scanning}} :
       /\ engine' = e
       /\ files' = [state |-> e.state, upload |-> Uploading(e)]
  /\ UNCHANGED <<saved, published, fileState, fileOwner, session, fileRequest, fileResponse,
                 forecastVars, configVars, modeVars, debugVars, queue, plan, scanning, veto>>

-----------------------------------------------------------------------------
(* storageTask: one pass of the loop *)

(* A new physical scan is due and the device answers; a file system that   *)
(* could not be used is then mounted again.                                *)
StartScan ==
  /\ storage = "top"
  /\ ~scanning /\ ~paused /\ hold /\ ~files.upload /\ fileState # "RUNNING"
  /\ scanning' = TRUE
  /\ storage' = IF /\ files.state \in {"UNAVAILABLE", "ERROR"}
                   /\ fileState = "IDLE" /\ fileOwner = "NONE"
                THEN "reinit" ELSE "runnable"
  /\ UNCHANGED <<engineVars, mailboxVars, forecastVars, configVars, modeVars, debugVars,
                 queue, plan, veto>>

(* file_store_init again, without publishing its snapshot.                  *)
Reinit ==
  /\ storage = "reinit"
  /\ storage' = "runnable"
  /\ engine' \in InitEngines(TRUE)
  /\ forecastReady' = FALSE
  /\ forecastState' = "RESTORE"
  /\ UNCHANGED <<saved, published, mailboxVars, forecastOk, candidate, configVars, modeVars,
                 debugVars, queue, plan, scanning, veto>>

(* A pass that starts no scan goes straight here: whether one is due is not *)
(* visible to debugTask.                                                   *)
CheckRunnable ==
  /\ storage \in {"top", "runnable"}
  /\ storage' = "wait"
  /\ plan' = [plan EXCEPT !.restore = RestoreRunnable]
  /\ UNCHANGED <<engineVars, mailboxVars, forecastVars, configVars, modeVars, debugVars,
                 queue, scanning, veto>>

(* Mutant of MustPoll: a forecast transaction does not shorten the wait.    *)
MustPollFiles == ScanRunnable \/ plan.restore \/ files.state = "INITIALIZING" \/ fileState = "RUNNING"

(* The work that keeps storageTask polling every tick.                     *)
MustPoll ==
  \/ ScanRunnable
  \/ plan.restore
  \/ files.state = "INITIALIZING"
  \/ fileState = "RUNNING"
  \/ forecastState \in ForecastRunning

(* "long" is up to the hour between two scans; without a scan in progress  *)
(* what is left of that hour may be nothing.                               *)
ChooseWait ==
  /\ storage = "wait"
  /\ storage' = "veto"
  /\ \E w \in IF MustPoll THEN {"short"}
              ELSE IF scanning \/ paused \/ files.upload THEN {"long"}
              ELSE {"short", "long"} :
       plan' = [plan EXCEPT !.wait = w]
  /\ UNCHANGED <<engineVars, mailboxVars, forecastVars, configVars, modeVars, debugVars,
                 queue, scanning, veto>>

(* Mutant of Busy: only the mailbox keeps the processor awake.              *)
BusyMailbox == files.state = "INITIALIZING" \/ fileState # "IDLE"

Busy ==
  \/ plan.restore
  \/ files.state = "INITIALIZING"
  \/ fileState # "IDLE"
  \/ files.upload
  \/ fileOwner # "NONE"
  \/ forecastState \in ForecastRunning

(* The task's answer to "may the processor sleep while I wait".  In AUTO   *)
(* an otherwise idle chip may still be busy inside; then it is asked again *)
(* after STORAGE_IDLE_RETRY_MS.                                            *)
DecideVeto ==
  /\ storage = "veto"
  /\ storage' = "receive"
  /\ \E chipBusy \in BOOLEAN :
       /\ chipBusy => ~Busy /\ ~hold
       /\ veto' = (Busy \/ chipBusy)
       /\ plan' = IF chipBusy THEN [plan EXCEPT !.wait = "short"] ELSE plan
  /\ UNCHANGED <<engineVars, mailboxVars, forecastVars, configVars, modeVars, debugVars,
                 queue, scanning>>

(* xQueueReceive returns a message, or its wait expires; the veto is raised *)
(* again before anything else.  The locals of plan are dead until the next  *)
(* pass computes them again.                                                *)
Receive ==
  /\ storage = "receive" /\ queue # "empty"
  /\ queue' = "empty"
  /\ veto' = TRUE
  /\ plan' = NoPlan
  /\ storage' = IF queue = "config" THEN "save" ELSE "process"
  /\ UNCHANGED <<engineVars, mailboxVars, forecastVars, configVars, modeVars, debugVars,
                 scanning>>

WaitExpires(w) ==
  /\ storage = "receive" /\ queue = "empty" /\ plan.wait = w
  /\ veto' = TRUE
  /\ plan' = NoPlan
  /\ storage' = "process"
  /\ UNCHANGED <<engineVars, mailboxVars, forecastVars, configVars, modeVars, debugVars,
                 queue, scanning>>

(* clock_config_save, and s_publish_config with the token's result.         *)
SaveConfig ==
  /\ storage = "save"
  /\ storage' = "process"
  /\ configBusy' = FALSE
  /\ UNCHANGED <<engineVars, mailboxVars, forecastVars, configReady, modeVars, debugVars,
                 queue, plan, scanning, veto>>

(* The first critical section of s_files_process: whose turn is it.         *)
TakeTurn ==
  /\ storage = "process"
  /\ fileOwner' = IF RestoreRunnable THEN "FORECAST" ELSE fileOwner
  /\ LET execute == fileOwner' # "FORECAST" /\ fileState = "PENDING" IN
       /\ fileState' = IF execute THEN "RUNNING" ELSE fileState
       /\ storage' = IF fileOwner' = "FORECAST" THEN "forecast"
                     ELSE IF execute THEN "execute" ELSE "step"
  /\ UNCHANGED <<engineVars, files, session, fileRequest, fileResponse, forecastVars,
                 configVars, modeVars, debugVars, queue, plan, scanning, veto>>

-----------------------------------------------------------------------------
(* storageTask: the forecast transaction (s_forecast_process)               *)

RestoreFinished(ok) ==
  /\ forecastOk' = ok
  /\ forecastReady' = TRUE
  /\ forecastState' = "IDLE"
  /\ fileOwner' = IF fileOwner = "FORECAST" THEN "NONE" ELSE fileOwner

ForecastScratch(op) ==
  /\ fileRequest' = [by |-> "forecast", op |-> op]
  /\ fileResponse' = [by |-> "forecast", op |-> op]

RestoreUnmounted ==
  /\ storage = "forecast" /\ forecastState = "RESTORE"
  /\ files.state \notin {"READY", "INITIALIZING"}
  /\ storage' = "forecastStep"
  /\ RestoreFinished(FALSE)
  /\ UNCHANGED <<engineVars, files, fileState, session, fileRequest, fileResponse, candidate,
                 configVars, modeVars, debugVars, queue, plan, scanning, veto>>

(* Mutant of RestoreRead: a failed restore clears the forecast in RAM.      *)
RestoreReadClears ==
  /\ storage = "forecast" /\ forecastState = "RESTORE" /\ files.state = "READY"
  /\ storage' = "forecastStep"
  /\ \E r \in Read(engine) :
       /\ engine' = r.engine
       /\ ForecastScratch("SIMPLE")
       /\ published' = IF r.ok /\ saved \in Batches THEN saved ELSE NoBatch
       /\ RestoreFinished(r.ok /\ saved # BadFile)
  /\ UNCHANGED <<saved, files, fileState, session, candidate, configVars, modeVars, debugVars,
                 queue, plan, scanning, veto>>

(* A missing file is no forecast and no error; a file that does not decode *)
(* is an error that leaves the forecast in RAM as it was.                  *)
RestoreRead ==
  /\ storage = "forecast" /\ forecastState = "RESTORE" /\ files.state = "READY"
  /\ storage' = "forecastStep"
  /\ \E r \in Read(engine) :
       /\ engine' = r.engine
       /\ ForecastScratch("SIMPLE")
       /\ published' = IF r.ok /\ saved \in Batches THEN saved ELSE published
       /\ RestoreFinished(r.ok /\ saved # BadFile)
  /\ UNCHANGED <<saved, files, fileState, session, candidate, configVars, modeVars, debugVars,
                 queue, plan, scanning, veto>>

(* BEGIN, WRITE and COMMIT of /forecast.bin, one per pass; the first        *)
(* failure turns to the cleanup.                                            *)
Transact(state, op, next) ==
  /\ storage = "forecast" /\ forecastState = state
  /\ storage' = "forecastStep"
  /\ \E r \in Execute(engine, op, "forecast") :
       /\ engine' = r.engine
       /\ ForecastScratch(op)
       /\ forecastState' = IF r.ok THEN next ELSE "CLEANUP"
  /\ UNCHANGED <<saved, published, files, fileState, fileOwner, session, forecastReady,
                 forecastOk, candidate, configVars, modeVars, debugVars, queue, plan, scanning,
                 veto>>

ForecastBegin  == Transact("PENDING", "BEGIN", "WRITE")
ForecastWrite  == Transact("WRITE", "WRITE", "COMMIT")
ForecastCommit == Transact("COMMIT", "COMMIT", "VERIFY")

(* Mutant of ForecastCleanup: the failure is not recorded in the result.    *)
ForecastCleanupKeepsResult ==
  /\ storage = "forecast" /\ forecastState = "CLEANUP"
  /\ storage' = "forecastStep"
  /\ \E r \in Execute(engine, "CANCEL", "forecast") :
       /\ engine' = r.engine
       /\ ForecastScratch("CANCEL")
  /\ forecastState' = "COMPLETE"
  /\ UNCHANGED <<saved, published, files, fileState, fileOwner, session, forecastReady,
                 forecastOk, candidate, configVars, modeVars, debugVars, queue, plan, scanning,
                 veto>>

ForecastCleanup ==
  /\ storage = "forecast" /\ forecastState = "CLEANUP"
  /\ storage' = "forecastStep"
  /\ \E r \in Execute(engine, "CANCEL", "forecast") :
       /\ engine' = r.engine
       /\ ForecastScratch("CANCEL")
  /\ forecastState' = "COMPLETE"
  /\ forecastOk' = FALSE
  /\ UNCHANGED <<saved, published, files, fileState, fileOwner, session, forecastReady,
                 candidate, configVars, modeVars, debugVars, queue, plan, scanning, veto>>

(* file_store_step, and the answer of a commit: the batch is published in   *)
(* RAM after the rename and before the result.  A commit that failed with   *)
(* an IO error may have renamed the file all the same.                      *)
(* s_forecast_process does nothing while the commit is verified, while the  *)
(* result is retained, or when it was taken after the turn was decided.     *)
ForecastStep ==
  /\ \/ storage = "forecastStep"
     \/ storage = "forecast" /\ forecastState \in {"VERIFY", "COMPLETE", "IDLE"}
  /\ storage' = "publish"
  /\ \E e \in EngineSteps(engine) :
       LET answered == forecastState = "VERIFY" /\ e.commit = "done" IN
       /\ engine' = IF answered THEN Polled(e) ELSE e
       /\ fileResponse' = IF answered
                          THEN [by |-> engine.upload, op |-> "COMMIT"]
                          ELSE fileResponse
       /\ saved' \in IF ~answered THEN {saved}
                     ELSE IF e.ok THEN {candidate}
                     ELSE IF e.state = "ERROR" THEN {saved, candidate}
                     ELSE {saved}
       /\ published' = IF answered /\ e.ok THEN candidate ELSE published
       /\ forecastOk' = IF answered /\ e.ok THEN TRUE ELSE forecastOk
       /\ forecastState' = IF ~answered THEN forecastState
                           ELSE IF e.ok THEN "COMPLETE" ELSE "CLEANUP"
  /\ UNCHANGED <<files, fileState, fileOwner, session, fileRequest, forecastReady, candidate,
                 configVars, modeVars, debugVars, queue, plan, scanning, veto>>

-----------------------------------------------------------------------------
(* storageTask: the file mailbox (the rest of s_files_process)              *)

(* The destructive self test uses the chip, not the engine.                 *)
RunSelftest ==
  /\ storage = "execute" /\ fileRequest.op = "SELFTEST"
  /\ storage' = "step"
  /\ fileResponse' = fileRequest
  /\ fileState' = "COMPLETE"
  /\ UNCHANGED <<engineVars, files, fileOwner, session, fileRequest, forecastVars, configVars,
                 modeVars, debugVars, queue, plan, scanning, veto>>

(* A commit is deferred and stays RUNNING.  A format that succeeded clears  *)
(* the forecast in RAM and whatever was left to restore.                    *)
RunRequest ==
  /\ storage = "execute" /\ fileRequest.op # "SELFTEST"
  /\ storage' = "step"
  /\ \E r \in Execute(engine, fileRequest.op, fileRequest.by) :
       LET formatted == fileRequest.op = "FORMAT" /\ r.ok IN
       /\ engine' = r.engine
       /\ fileResponse' = fileRequest
       /\ fileState' = IF r.deferred THEN fileState ELSE "COMPLETE"
       /\ saved' \in IF formatted THEN {NoBatch}
                     ELSE IF fileRequest.op = "FORMAT" /\ r.engine.state = "ERROR"
                     THEN {saved, NoBatch} ELSE {saved}
       /\ published' = IF formatted THEN NoBatch ELSE published
       /\ forecastOk' = IF formatted THEN TRUE ELSE forecastOk
       /\ forecastReady' = IF formatted THEN TRUE ELSE forecastReady
       /\ forecastState' = IF formatted THEN "IDLE" ELSE forecastState
  /\ UNCHANGED <<files, fileOwner, session, fileRequest, candidate, configVars, modeVars,
                 debugVars, queue, plan, scanning, veto>>

StepEngine ==
  /\ storage = "step"
  /\ storage' = "publish"
  /\ \E e \in EngineSteps(engine) :
       LET answered == fileState = "RUNNING" /\ e.commit = "done" IN
       /\ engine' = IF answered THEN Polled(e) ELSE e
       /\ fileState' = IF answered THEN "COMPLETE" ELSE fileState
       /\ fileResponse' = IF answered
                          THEN [by |-> engine.upload, op |-> "COMMIT"]
                          ELSE fileResponse
  /\ UNCHANGED <<saved, published, files, fileOwner, session, fileRequest, forecastVars,
                 configVars, modeVars, debugVars, queue, plan, scanning, veto>>

(* s_files_publish, and one step of the physical scan, which may end it.    *)
Publish ==
  /\ storage = "publish"
  /\ storage' = "top"
  /\ files' = [state |-> engine.state, upload |-> Uploading(engine)]
  /\ \E ended \in BOOLEAN :
       /\ ended => scanning /\ ~paused /\ hold /\ ~Uploading(engine) /\ fileState # "RUNNING"
       /\ scanning' = (scanning /\ ~ended)
  /\ UNCHANGED <<engineVars, fileState, fileOwner, session, fileRequest, fileResponse,
                 forecastVars, configVars, modeVars, debugVars, queue, plan, veto>>

StorageTask ==
  \/ Boot \/ LoadConfig \/ Mount
  \/ StartScan \/ Reinit
  \/ CheckRunnable \/ ChooseWait \/ DecideVeto
  \/ Receive \/ WaitExpires("short") \/ SaveConfig
  \/ TakeTurn
  \/ RestoreUnmounted \/ RestoreRead
  \/ ForecastBegin \/ ForecastWrite \/ ForecastCommit \/ ForecastCleanup
  \/ ForecastStep
  \/ RunSelftest \/ RunRequest \/ StepEngine
  \/ Publish

-----------------------------------------------------------------------------
(* debugTask: the storage calls its clients make                            *)

storageVars == <<localVars, engineVars, forecastReady, forecastOk, configReady>>
AtLoop == dnext = "loop" /\ ~dwake

(* storage_maintenance_acquire *)
Acquire ==
  /\ fileOwner = "NONE" /\ fileState = "IDLE"
  /\ fileOwner' = "MAINTENANCE"
  /\ session' = TRUE

(* Mutant of Release: storageTask is not woken (the former defect B2).      *)
ReleaseSilently ==
  /\ IF fileOwner = "MAINTENANCE" /\ fileState = "IDLE" /\ ~files.upload
     THEN session' = FALSE /\ fileOwner' = "NONE"
     ELSE UNCHANGED <<session, fileOwner>>
  /\ UNCHANGED dwake

(* Mutant of Release: the lock is given back with the session still marked. *)
ReleaseKeepsSession ==
  IF fileOwner = "MAINTENANCE" /\ fileState = "IDLE" /\ ~files.upload
  THEN fileOwner' = "NONE" /\ dwake' = TRUE /\ UNCHANGED session
  ELSE UNCHANGED <<session, fileOwner, dwake>>

(* storage_maintenance_release: it changes nothing while s_files still      *)
(* shows an upload, and it reports nothing to its caller.                   *)
Release ==
  IF fileOwner = "MAINTENANCE" /\ fileState = "IDLE" /\ ~files.upload
  THEN session' = FALSE /\ fileOwner' = "NONE" /\ dwake' = TRUE
  ELSE UNCHANGED <<session, fileOwner, dwake>>

(* storage_file_request *)
FileRequest(op) ==
  /\ fileState = "IDLE" /\ fileOwner # "FORECAST"
  /\ fileRequest' = [by |-> "file", op |-> op]
  /\ fileOwner' = "MAINTENANCE"
  /\ fileState' = "PENDING"
  /\ dreq' = op
  /\ dwake' = TRUE
  /\ UNCHANGED <<storageVars, files, session, fileResponse, forecastState, candidate,
                 configBusy, modeVars, queue, dforecast, dconfig>>

(* Mutant of SendWake: the owner is only notified when it is already waiting. *)
SendWakeIfWaiting ==
  /\ dwake
  /\ dwake' = FALSE
  /\ queue' = IF queue = "empty" /\ storage = "receive" THEN "wake" ELSE queue
  /\ UNCHANGED <<storageVars, mailboxVars, forecastState, candidate, configBusy, modeVars,
                 dmode, dreq, dforecast, dconfig, dnext>>

(* s_wake_owner: a full queue already holds what wakes the owner.           *)
SendWake ==
  /\ dwake
  /\ dwake' = FALSE
  /\ queue' = IF queue = "empty" THEN "wake" ELSE queue
  /\ UNCHANGED <<storageVars, mailboxVars, forecastState, candidate, configBusy, modeVars,
                 dmode, dreq, dforecast, dconfig, dnext>>

(* "FS TRANSFER" enters a binary session; another FS command acquires the   *)
(* same lock and then submits its operation.                                *)
EnterSession(mode, next) ==
  /\ AtLoop /\ dmode = "console" /\ dreq = "none" /\ ~dforecast
  /\ Acquire
  /\ dmode' = mode
  /\ dnext' = next
  /\ UNCHANGED <<storageVars, files, fileState, fileRequest, fileResponse, forecastState,
                 candidate, configBusy, modeVars, queue, dreq, dforecast, dconfig, dwake>>

EnterBinary == ~dconfig /\ EnterSession("binary", "loop")
TextCommand == EnterSession("text", "submit")

TextSubmit ==
  /\ dnext = "submit"
  /\ \E op \in PeerOps \cap {"SIMPLE", "FORMAT", "SELFTEST"} : FileRequest(op)
  /\ dnext' = "loop"
  /\ UNCHANGED dmode

BinarySubmit ==
  /\ AtLoop /\ dmode = "binary" /\ dreq = "none"
  /\ \E op \in PeerOps : FileRequest(op)
  /\ UNCHANGED <<dmode, dnext>>

(* EXIT, or thirty seconds without traffic: only between operations.        *)
CloseBinary ==
  /\ AtLoop /\ dmode = "binary" /\ dreq = "none"
  /\ dmode' = "closing"
  /\ UNCHANGED <<storageVars, mailboxVars, forecastState, candidate, configBusy, modeVars,
                 queue, dreq, dforecast, dconfig, dwake, dnext>>

(* The cleanup cancels whatever upload the peer left behind.                *)
CancelUpload ==
  /\ AtLoop /\ dmode = "closing" /\ dreq = "none"
  /\ FileRequest("CANCEL")
  /\ dmode' = "cancelling"
  /\ UNCHANGED dnext

(* storage_file_take_result, polled in every pass of the debug loop.        *)
TakeFileResult ==
  /\ AtLoop /\ dreq # "none"
  /\ fileState = "COMPLETE"
  /\ fileState' = "IDLE"
  /\ fileOwner' = IF ~session /\ ~files.upload THEN "NONE" ELSE fileOwner
  /\ dwake' = TRUE
  /\ dnext' = "taken"
  /\ UNCHANGED <<storageVars, files, session, fileRequest, fileResponse, forecastState,
                 candidate, configBusy, modeVars, queue, dmode, dreq, dforecast, dconfig>>

AnswerBinary ==
  /\ dnext = "taken" /\ ~dwake /\ dmode = "binary"
  /\ dnext' = "loop"
  /\ dreq' = "none"
  /\ UNCHANGED <<storageVars, mailboxVars, forecastState, candidate, configBusy, modeVars,
                 queue, dmode, dforecast, dconfig, dwake>>

(* "FS LIST" goes on with the next entry under the same lock.               *)
ContinueListing ==
  /\ dnext = "taken" /\ ~dwake /\ dmode = "text" /\ dreq = "SIMPLE"
  /\ FileRequest("SIMPLE")
  /\ dnext' = "loop"
  /\ UNCHANGED dmode

(* s_complete_text and s_finish_cleanup: both end by releasing the lock.    *)
LeaveSession ==
  /\ dnext = "taken" /\ ~dwake /\ dmode \in {"text", "cancelling"}
  /\ Release
  /\ dmode' = "console"
  /\ dreq' = "none"
  /\ dnext' = "loop"
  /\ UNCHANGED <<storageVars, files, fileState, fileRequest, fileResponse, forecastState,
                 candidate, configBusy, modeVars, queue, dforecast, dconfig>>

(* storage_forecast_request, from FORECAST COMMIT of a batch that is not    *)
(* the published one.                                                       *)
RequestForecast ==
  /\ AtLoop /\ dmode \in {"console", "text"} /\ ~dforecast
  /\ forecastReady
  /\ fileOwner = "NONE" /\ forecastState = "IDLE" /\ fileState = "IDLE"
  /\ files.state = "READY"
  /\ candidate' \in Batches \ {published}
  /\ forecastState' = "PENDING"
  /\ fileOwner' = "FORECAST"
  /\ dforecast' = TRUE
  /\ dwake' = TRUE
  /\ UNCHANGED <<storageVars, files, fileState, session, fileRequest, fileResponse,
                 configBusy, modeVars, queue, dmode, dreq, dconfig, dnext>>

(* storage_forecast_take_result, polled in every pass of the debug loop.    *)
TakeForecastResult ==
  /\ AtLoop /\ dforecast
  /\ forecastState = "COMPLETE"
  /\ forecastState' = "IDLE"
  /\ fileOwner' = "NONE"
  /\ dforecast' = FALSE
  /\ dwake' = TRUE
  /\ UNCHANGED <<storageVars, files, fileState, session, fileRequest, fileResponse,
                 candidate, configBusy, modeVars, queue, dmode, dreq, dconfig, dnext>>

(* storage_request_format: busy is published before the queue is tried.     *)
RequestFormat ==
  /\ AtLoop /\ dmode = "console" /\ dreq = "none" /\ ~dforecast /\ ~dconfig
  /\ configReady /\ ~configBusy
  /\ configBusy' = TRUE
  /\ dnext' = "sendConfig"
  /\ UNCHANGED <<storageVars, mailboxVars, forecastState, candidate, modeVars, queue,
                 dmode, dreq, dforecast, dconfig, dwake>>

(* Mutant of SendConfig: a full queue leaves the request busy.              *)
SendConfigStaysBusy ==
  /\ dnext = "sendConfig"
  /\ dnext' = "loop"
  /\ IF queue = "empty"
     THEN queue' = "config" /\ dconfig' = TRUE
     ELSE UNCHANGED <<queue, dconfig>>
  /\ UNCHANGED <<storageVars, mailboxVars, forecastState, candidate, configBusy, modeVars,
                 dmode, dreq, dforecast, dwake>>

SendConfig ==
  /\ dnext = "sendConfig"
  /\ dnext' = "loop"
  /\ IF queue = "empty"
     THEN queue' = "config" /\ dconfig' = TRUE /\ UNCHANGED configBusy
     ELSE configBusy' = FALSE /\ UNCHANGED <<queue, dconfig>>
  /\ UNCHANGED <<storageVars, mailboxVars, forecastState, candidate, modeVars,
                 dmode, dreq, dforecast, dwake>>

PollConfig ==
  /\ AtLoop /\ dconfig /\ ~configBusy
  /\ dconfig' = FALSE
  /\ UNCHANGED <<storageVars, mailboxVars, forecastState, candidate, configBusy, modeVars,
                 queue, dmode, dreq, dforecast, dwake, dnext>>

(* power_set_mode, then storage_set_scan_paused and its wake.               *)
SetMode ==
  /\ AtLoop /\ dmode \in {"console", "text"}
  /\ hold' \in PeerModes
  /\ dnext' = "pause"
  /\ UNCHANGED <<storageVars, mailboxVars, forecastState, candidate, configBusy, paused,
                 queue, dmode, dreq, dforecast, dconfig, dwake>>

PauseScan ==
  /\ dnext = "pause"
  /\ paused' = ~hold
  /\ dwake' = TRUE
  /\ dnext' = "loop"
  /\ UNCHANGED <<storageVars, mailboxVars, forecastState, candidate, configBusy, hold,
                 queue, dmode, dreq, dforecast, dconfig>>

(* What debugTask does without a command from its peer.                     *)
DebugContinues ==
  \/ SendWake \/ TextSubmit \/ AnswerBinary \/ ContinueListing \/ LeaveSession
  \/ SendConfig \/ PauseScan

DebugTask ==
  \/ DebugContinues
  \/ EnterBinary \/ TextCommand \/ BinarySubmit \/ CloseBinary \/ CancelUpload
  \/ TakeFileResult
  \/ RequestForecast \/ TakeForecastResult
  \/ RequestFormat \/ PollConfig
  \/ SetMode

Next == StorageTask \/ WaitExpires("long") \/ DebugTask

Spec == Init /\ [][Next]_vars

(* Both tasks are scheduled; the hour of a long wait is never relied on.    *)
(* The debug loop polls its results in every pass, so a result that stays   *)
(* available is taken however many commands arrive in between.              *)
Fairness ==
  /\ WF_vars(StorageTask)
  /\ WF_vars(DebugContinues)
  /\ SF_vars(CancelUpload)
  /\ SF_vars(TakeFileResult)
  /\ SF_vars(TakeForecastResult)

FairSpec == Spec /\ Fairness

-----------------------------------------------------------------------------
(* Properties *)

(* One client at a time owns the engine and its scratch buffers: a file     *)
(* request is only ever accepted, run or retained under the maintenance     *)
(* lock, a forecast transaction under its own, and a session never overlaps *)
(* either the forecast owner or a free mailbox (s_file_owner).              *)
OneOwner ==
  /\ fileState # "IDLE" => fileOwner = "MAINTENANCE"
  /\ forecastState \in ForecastRunning \cup {"COMPLETE"} => fileOwner = "FORECAST"
  /\ session <=> fileOwner = "MAINTENANCE"

(* The upload inside the engine belongs to whoever owns the mailbox: no     *)
(* path, however it fails, frees the mailbox over a half-written temporary  *)
(* file or lets one client cancel or commit the other's upload.             *)
UploadOwned ==
  /\ engine.upload = "file" => fileOwner = "MAINTENANCE"
  /\ engine.upload = "forecast" =>
       forecastState \in {"WRITE", "COMMIT", "VERIFY", "CLEANUP"}

(* A retained answer is the answer to the request that waits for it, though *)
(* storageTask reuses one response buffer for forecast and file work and    *)
(* debugTask refills the request buffer while storageTask may run.          *)
AnswerIsOwn ==
  /\ storage = "execute" => fileRequest = [by |-> "file", op |-> dreq]
  /\ fileState = "COMPLETE" => fileResponse = [by |-> "file", op |-> dreq]

(* Work that storageTask would not look for by itself in a long wait.       *)
WorkWaiting ==
  \/ fileState = "PENDING"
  \/ forecastState \in ForecastRunning
  \/ RestoreRunnable
  \/ configBusy

(* No lost wake-up: whatever was accepted while storageTask was deciding to *)
(* wait for up to an hour, there is a message in the queue or debugTask is  *)
(* on its way to send one (s_wake_owner is nonblocking and the queue holds  *)
(* a single message, so a full queue must already mean a wake-up).          *)
NoLostWake ==
  storage = "receive" /\ plan.wait = "long" /\ WorkWaiting =>
    queue # "empty" \/ dwake \/ dnext = "sendConfig"

(* While storageTask waits with its sleep veto down and no message for it,  *)
(* nothing accepted from a client or begun in the engine is unfinished.     *)
SleepOnlyWhenIdle ==
  storage = "receive" /\ ~veto /\ queue = "empty" /\ ~dwake /\ dnext # "sendConfig" =>
    /\ fileState = "IDLE"
    /\ forecastState \in {"RESTORE", "IDLE"}
    /\ engine.state # "INITIALIZING"
    /\ engine.upload = "none" /\ engine.commit = "idle"
    /\ ~configBusy

(* The veto is not forgotten either: once debugTask has taken a result or   *)
(* released the lock, storageTask does not sit in a long wait with the veto *)
(* up for work that is gone (the defect current_code_gaps.md calls B2).     *)
VetoRecomputed ==
  storage = "receive" /\ plan.wait = "long" /\ veto /\ queue = "empty" /\ ~dwake =>
    fileState # "IDLE" \/ fileOwner # "NONE" \/ files.upload

(* A save is only reported as successful when the batch is both the file on *)
(* flash and the forecast in RAM.                                           *)
SavedIsDurable ==
  forecastState = "COMPLETE" /\ forecastOk => saved = candidate /\ published = candidate

(* RAM never runs ahead of flash: a batch is published only when the file   *)
(* already holds it, and the forecast is cleared only when the file is gone.*)
PublishAfterRename == [][published' # published => saved' = published']_vars

(* Every accepted request is answered and its answer taken, without relying *)
(* on the hourly wait to expire.                                            *)
FileRequestsAnswered == fileState = "PENDING" ~> fileState = "IDLE"
ForecastsAnswered == forecastState = "PENDING" ~> forecastState = "IDLE"
FormatsAnswered == configBusy ~> ~configBusy

(* docs/filesystem.md:11: the binary session holds the lock until its exit  *)
(* cleanup completes.  Once debugTask is back at its console the lock is    *)
(* free; the code can leave it held for ever.                               *)
LockFreeAtConsole ==
  AtLoop /\ dmode = "console" /\ dreq = "none" => fileOwner # "MAINTENANCE"

(* docs/forecast_protocol.md:74: after a successful mount the saved file is *)
(* promptly loaded.  Once the restore is over and the file system is        *)
(* published as READY, RAM holds what the file holds.                       *)
RestoredAfterMount ==
  forecastReady /\ forecastState = "IDLE" /\ fileOwner = "NONE"
    /\ files.state = "READY" /\ engine.state = "READY" /\ saved \in Batches =>
  published = saved
=============================================================================
