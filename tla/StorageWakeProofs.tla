--------------------------- MODULE StorageWakeProofs --------------------------
(***************************************************************************)
(* Proofs about Storage, second part: whatever is accepted while           *)
(* storageTask is on its way into a long wait wakes it, its sleep veto     *)
(* says what it has left to do, and a save that is reported is durable.    *)
(*                                                                         *)
(* The ownership invariant of StorageProofs is used as it stands.          *)
(***************************************************************************)
EXTENDS StorageProofs

-----------------------------------------------------------------------------
(* The inductive invariant *)

(* A message in the queue, or debugTask about to send one.                  *)
MessageDue == queue # "empty" \/ dwake

(* A format request is at one place: debugTask still has to send it, it is  *)
(* in the queue, or storageTask is saving it.                               *)
ConfigInv ==
  /\ configBusy <=> dnext = "sendConfig" \/ queue = "config" \/ storage = "save"
  /\ queue = "config" => dnext # "sendConfig"
  /\ storage = "save" => queue # "config" /\ dnext # "sendConfig"

(* What storageTask has not looked at since its last pass announced itself. *)
WakeInv ==
  /\ fileState = "PENDING" /\ storage \notin {"save", "process"} => MessageDue
  /\ storage \in {"wait", "veto", "receive"} /\ RestoreRunnable => plan.restore \/ MessageDue
  /\ storage \in {"veto", "receive"} /\ plan.wait = "long" =>
       /\ ~plan.restore /\ files.state # "INITIALIZING"
       /\ forecastState \in ForecastRunning => MessageDue

(* The snapshot under the lock is the engine's state whenever storageTask   *)
(* decides about a wait, unless it has just mounted again: then a restore   *)
(* is left to do.                                                           *)
InSync == files.state = engine.state /\ (files.upload <=> Uploading(engine))
SyncInv ==
  /\ storage \in {"top", "reinit"} => InSync
  /\ storage = "reinit" => files.state \in {"UNAVAILABLE", "ERROR"}
  /\ storage \in {"runnable", "wait", "veto", "receive"} =>
       InSync \/ (forecastState = "RESTORE" /\ files.state \in {"UNAVAILABLE", "ERROR"})

(* With the veto down and no message due there is nothing to do.            *)
IdleInv ==
  storage = "receive" /\ ~veto /\ ~MessageDue =>
    /\ fileState = "IDLE" /\ forecastState \in {"RESTORE", "IDLE"}
    /\ InSync /\ files.state # "INITIALIZING" /\ ~files.upload

WaitInv == ConfigInv /\ WakeInv /\ SyncInv /\ IdleInv /\ VetoRecomputed

WInv == IInv /\ WaitInv /\ SavedIsDurable

LEMMA NextWait == IInv /\ WaitInv /\ TypeOK' /\ [Next]_vars => WaitInv'
<1> SUFFICES ASSUME IInv, WaitInv, TypeOK', [Next]_vars PROVE WaitInv'
  OBVIOUS
<1> USE DEF vars, engineVars, mailboxVars, forecastVars, configVars, modeVars, localVars,
            debugVars, storageVars, AtLoop
<1> USE DEF WaitInv, ConfigInv, WakeInv, SyncInv, InSync, IdleInv, VetoRecomputed, MessageDue,
            RestoreRunnable, ForecastRunning
<1>1. CASE Boot
  BY <1>1 DEF IInv, TypeOK, Boot
<1>2. CASE LoadConfig
  BY <1>2 DEF IInv, TypeOK, LoadConfig
<1>3. CASE Mount
  BY <1>3 DEF IInv, TypeOK, Mount
<1>4. CASE StartScan
  BY <1>4 DEF IInv, TypeOK, StartScan
<1>5. CASE Reinit
  BY <1>5 DEF IInv, TypeOK, Reinit
<1>6. CASE CheckRunnable
  BY <1>6 DEF IInv, TypeOK, CheckRunnable
<1>7. CASE ChooseWait
  BY <1>7 DEF IInv, TypeOK, ChooseWait, MustPoll
<1>8. CASE DecideVeto
  <2>1. PICK chipBusy \in BOOLEAN :
          /\ chipBusy => ~Busy /\ ~hold
          /\ veto' = (Busy \/ chipBusy)
          /\ plan' = IF chipBusy THEN [plan EXCEPT !.wait = "short"] ELSE plan
    BY <1>8 DEF DecideVeto
  <2>2. /\ storage = "veto" /\ storage' = "receive"
        /\ UNCHANGED <<engine, files, fileState, fileOwner, forecastState, configBusy, queue,
                       dwake, dnext>>
    BY <1>8 DEF DecideVeto
  <2>3. /\ veto' <=> Busy \/ chipBusy
        /\ plan'.restore = plan.restore /\ plan'.wait \in {plan.wait, "short"}
        /\ plan'.wait = "long" => ~chipBusy
    BY <2>1 DEF IInv, TypeOK, Plan
  <2>4. ConfigInv' /\ WakeInv' /\ SyncInv'
    BY <2>2, <2>3
  <2>5. IdleInv'
    BY <2>2, <2>3 DEF Busy, IInv, TypeOK, ForecastStates, Owned, OneOwner
  <2>6. VetoRecomputed'
    BY <2>2, <2>3 DEF Busy, IInv, Owned, OneOwner
  <2> QED BY <2>4, <2>5, <2>6
<1>9. CASE Receive
  BY <1>9 DEF IInv, TypeOK, Receive, NoPlan
<1>10. ASSUME NEW w \in {"short", "long"}, WaitExpires(w) PROVE WaitInv'
  BY <1>10 DEF IInv, TypeOK, WaitExpires, NoPlan
<1>11. CASE SaveConfig
  BY <1>11 DEF IInv, TypeOK, SaveConfig
<1>12. CASE TakeTurn
  <2>1. fileState = "PENDING" => fileOwner = "MAINTENANCE"
    BY DEF IInv, Owned, OneOwner
  <2> QED BY <1>12, <2>1 DEF IInv, TypeOK, TakeTurn
<1>13. CASE RestoreUnmounted
  BY <1>13 DEF IInv, TypeOK, RestoreUnmounted, RestoreFinished
<1>14. CASE RestoreRead
  BY <1>14 DEF IInv, TypeOK, RestoreRead, RestoreFinished
<1>15. CASE ForecastBegin
  BY <1>15 DEF IInv, TypeOK, ForecastBegin, Transact
<1>16. CASE ForecastWrite
  BY <1>16 DEF IInv, TypeOK, ForecastWrite, Transact
<1>17. CASE ForecastCommit
  BY <1>17 DEF IInv, TypeOK, ForecastCommit, Transact
<1>18. CASE ForecastCleanup
  BY <1>18 DEF IInv, TypeOK, ForecastCleanup
<1>19. CASE ForecastStep
  BY <1>19 DEF IInv, TypeOK, ForecastStep
<1>20. CASE RunSelftest
  BY <1>20 DEF IInv, TypeOK, RunSelftest
<1>21. CASE RunRequest
  BY <1>21 DEF IInv, TypeOK, RunRequest
<1>22. CASE StepEngine
  BY <1>22 DEF IInv, TypeOK, StepEngine
<1>23. CASE Publish
  BY <1>23 DEF IInv, TypeOK, Publish
<1>24. CASE SendWake
  BY <1>24 DEF IInv, TypeOK, SendWake
<1>25. CASE TextSubmit
  BY <1>25 DEF IInv, TypeOK, TextSubmit, FileRequest
<1>26. CASE AnswerBinary
  BY <1>26 DEF IInv, TypeOK, AnswerBinary
<1>27. CASE ContinueListing
  BY <1>27 DEF IInv, TypeOK, ContinueListing, FileRequest
<1>28. CASE LeaveSession
  BY <1>28 DEF IInv, TypeOK, LeaveSession, Release
<1>29. CASE SendConfig
  <2>1. configBusy
    BY <1>29 DEF SendConfig
  <2>2. CASE queue = "empty"
    BY <1>29, <2>1, <2>2 DEF IInv, TypeOK, SendConfig
  <2>3. CASE queue # "empty"
    <3>1. queue # "config" /\ storage # "save" /\ dnext' = "loop" /\ ~configBusy'
      BY <1>29, <2>1, <2>3, Zenon DEF SendConfig
    <3> QED BY <1>29, <2>3, <3>1 DEF IInv, TypeOK, SendConfig
  <2> QED BY <2>2, <2>3
<1>30. CASE PauseScan
  BY <1>30 DEF IInv, TypeOK, PauseScan
<1>31. CASE EnterBinary
  BY <1>31 DEF IInv, TypeOK, EnterBinary, EnterSession, Acquire
<1>32. CASE TextCommand
  BY <1>32 DEF IInv, TypeOK, TextCommand, EnterSession, Acquire
<1>33. CASE BinarySubmit
  BY <1>33 DEF IInv, TypeOK, BinarySubmit, FileRequest
<1>34. CASE CloseBinary
  BY <1>34 DEF IInv, TypeOK, CloseBinary
<1>35. CASE CancelUpload
  BY <1>35 DEF IInv, TypeOK, CancelUpload, FileRequest
<1>36. CASE TakeFileResult
  BY <1>36 DEF IInv, TypeOK, TakeFileResult
<1>37. CASE RequestForecast
  BY <1>37 DEF IInv, TypeOK, RequestForecast
<1>38. CASE TakeForecastResult
  BY <1>38 DEF IInv, TypeOK, TakeForecastResult
<1>39. CASE RequestFormat
  BY <1>39 DEF IInv, TypeOK, RequestFormat
<1>40. CASE PollConfig
  BY <1>40 DEF IInv, TypeOK, PollConfig
<1>41. CASE SetMode
  BY <1>41 DEF IInv, TypeOK, SetMode
<1>42. CASE UNCHANGED vars
  BY <1>42
<1> QED
  BY <1>1, <1>2, <1>3, <1>4, <1>5, <1>6, <1>7, <1>8, <1>9, <1>10, <1>11, <1>12,
     <1>13, <1>14, <1>15, <1>16, <1>17, <1>18, <1>19, <1>20, <1>21, <1>22, <1>23,
     <1>24, <1>25, <1>26, <1>27, <1>28, <1>29, <1>30, <1>31, <1>32, <1>33, <1>34,
     <1>35, <1>36, <1>37, <1>38, <1>39, <1>40, <1>41, <1>42
  DEF Next, StorageTask, DebugTask, DebugContinues

LEMMA NextSaved == IInv /\ SavedIsDurable /\ [Next]_vars => SavedIsDurable'
<1> SUFFICES ASSUME IInv, SavedIsDurable, [Next]_vars, forecastState' = "COMPLETE", forecastOk'
             PROVE  saved' = candidate' /\ published' = candidate'
  BY DEF SavedIsDurable
<1>1. CASE ForecastStep
  <2>1. PICK e \in EngineSteps(engine) :
          LET answered == forecastState = "VERIFY" /\ e.commit = "done" IN
          /\ saved' \in IF ~answered THEN {saved}
                        ELSE IF e.ok THEN {candidate}
                        ELSE IF e.state = "ERROR" THEN {saved, candidate}
                        ELSE {saved}
          /\ published' = IF answered /\ e.ok THEN candidate ELSE published
          /\ forecastOk' = IF answered /\ e.ok THEN TRUE ELSE forecastOk
          /\ forecastState' = IF ~answered THEN forecastState
                              ELSE IF e.ok THEN "COMPLETE" ELSE "CLEANUP"
    BY <1>1 DEF ForecastStep
  <2>2. candidate' = candidate
    BY <1>1 DEF ForecastStep
  <2>3. CASE forecastState = "VERIFY" /\ e.commit = "done"
    BY <2>1, <2>2, <2>3
  <2>4. CASE ~(forecastState = "VERIFY" /\ e.commit = "done")
    <3>1. UNCHANGED <<saved, published, forecastState>> /\ forecastOk' = forecastOk
      BY <2>1, <2>4, Zenon
    <3> QED BY <2>2, <3>1, Zenon DEF SavedIsDurable
  <2> QED BY <2>3, <2>4
<1>2. CASE ForecastCleanup
  BY <1>2, Zenon DEF ForecastCleanup
<1>3. CASE RunRequest
  <2>1. forecastState \notin {"COMPLETE"}
    BY <1>3 DEF RunRequest, IInv, Owned, OneOwner, TurnInv
  <2>2. forecastState' \in {forecastState, "IDLE"}
    BY <1>3 DEF RunRequest
  <2> QED BY <2>1, <2>2
<1>4. CASE RestoreUnmounted \/ RestoreRead
  BY <1>4, Zenon DEF RestoreUnmounted, RestoreRead, RestoreFinished
<1>5. CASE Reinit \/ ForecastBegin \/ ForecastWrite \/ ForecastCommit
  BY <1>5 DEF Reinit, ForecastBegin, ForecastWrite, ForecastCommit, Transact
<1>6. CASE RequestForecast \/ TakeForecastResult
  BY <1>6 DEF RequestForecast, TakeForecastResult
<1>7. CASE UNCHANGED <<saved, published, candidate, forecastState, forecastOk>>
  BY <1>7, Zenon DEF SavedIsDurable
<1>8. CASE \/ Boot \/ LoadConfig \/ Mount \/ StartScan \/ CheckRunnable \/ ChooseWait \/ DecideVeto
           \/ Receive \/ WaitExpires("short") \/ WaitExpires("long") \/ SaveConfig \/ TakeTurn
           \/ RunSelftest \/ StepEngine \/ Publish
  BY <1>7, <1>8 DEF Boot, LoadConfig, Mount, StartScan, CheckRunnable, ChooseWait, DecideVeto,
    Receive, WaitExpires, SaveConfig, TakeTurn, RunSelftest, StepEngine, Publish, engineVars,
    forecastVars
<1>9. CASE \/ SendWake \/ TextSubmit \/ AnswerBinary \/ ContinueListing \/ LeaveSession
           \/ SendConfig \/ PauseScan \/ EnterBinary \/ TextCommand \/ BinarySubmit \/ CloseBinary
           \/ CancelUpload \/ TakeFileResult \/ RequestFormat \/ PollConfig \/ SetMode
  BY <1>7, <1>9 DEF SendWake, TextSubmit, AnswerBinary, ContinueListing, LeaveSession,
    SendConfig, PauseScan, EnterBinary, TextCommand, EnterSession, BinarySubmit, CloseBinary,
    CancelUpload, TakeFileResult, RequestFormat, PollConfig, SetMode, FileRequest, storageVars,
    engineVars
<1>10. CASE UNCHANGED vars
  BY <1>7, <1>10 DEF vars, engineVars, forecastVars
<1> QED BY <1>1, <1>2, <1>3, <1>4, <1>5, <1>6, <1>8, <1>9, <1>10
  DEF Next, StorageTask, DebugTask, DebugContinues

-----------------------------------------------------------------------------
(* The theorems *)

LEMMA InitWait == Init => WaitInv /\ SavedIsDurable
BY DEF Init, WaitInv, ConfigInv, WakeInv, SyncInv, IdleInv, VetoRecomputed, SavedIsDurable

LEMMA WaitInductive == Spec => []WInv
<1>1. Init => WInv
  BY InitType, InitOwned, InitWait DEF IInv, WInv
<1>2. WInv /\ [Next]_vars => WInv'
  BY NextType, NextOwned, NextWait, NextSaved DEF IInv, WInv
<1> QED BY <1>1, <1>2, PTL DEF Spec

(* Nothing accepted while storageTask was deciding to wait for up to an hour *)
(* is left without a message: the nonblocking send to a queue of one place   *)
(* and the checks before the wait cover each other.                          *)
THEOREM WakeSafe == Spec => []NoLostWake
<1>1. WInv => NoLostWake
  BY DEF WInv, WaitInv, ConfigInv, WakeInv, MessageDue, NoLostWake, WorkWaiting
<1> QED BY <1>1, WaitInductive, PTL

(* While storageTask waits with its veto down and no message due, neither a  *)
(* client's request nor anything begun in the engine is unfinished, although *)
(* the veto is computed from a snapshot.                                     *)
THEOREM SleepSafe == Spec => []SleepOnlyWhenIdle
<1>1. WInv => SleepOnlyWhenIdle
  <2> SUFFICES ASSUME WInv, storage = "receive", ~veto, queue = "empty", ~dwake,
                      dnext # "sendConfig"
               PROVE  /\ fileState = "IDLE" /\ forecastState \in {"RESTORE", "IDLE"}
                      /\ engine.state # "INITIALIZING"
                      /\ engine.upload = "none" /\ engine.commit = "idle"
                      /\ ~configBusy
    BY DEF SleepOnlyWhenIdle
  <2>1. /\ fileState = "IDLE" /\ forecastState \in {"RESTORE", "IDLE"}
        /\ engine.state # "INITIALIZING" /\ ~Uploading(engine)
    BY DEF WInv, WaitInv, IdleInv, InSync, MessageDue
  <2>2. ~configBusy
    BY DEF WInv, WaitInv, ConfigInv
  <2>3. engine.upload = "none"
    BY <2>1 DEF Uploading
  <2>4. engine.commit = "idle"
    BY <2>3 DEF WInv, IInv, TypeOK, Engine, Owned, UploadInv
  <2> QED BY <2>1, <2>2, <2>3, <2>4
<1> QED BY <1>1, WaitInductive, PTL

(* Once its clients are gone, storageTask does not wait on with the veto up  *)
(* (the defect current_code_gaps.md calls B2 cannot come back).              *)
THEOREM VetoSafe == Spec => []VetoRecomputed
<1>1. WInv => VetoRecomputed
  BY DEF WInv, WaitInv
<1> QED BY <1>1, WaitInductive, PTL

(* A forecast reported as saved is the file on flash and the forecast in RAM *)
(* until its result is taken, whatever the other client does meanwhile.      *)
THEOREM SaveSafe == Spec => []SavedIsDurable
<1>1. WInv => SavedIsDurable
  BY DEF WInv
<1> QED BY <1>1, WaitInductive, PTL

(* RAM never runs ahead of flash: what is published is what the file holds   *)
(* at that very step, so no reader sees a batch a restart would not find.    *)
THEOREM PublishSafe == Spec => PublishAfterRename
<1>1. [Next]_vars => [published' # published => saved' = published']_vars
  <2> SUFFICES ASSUME [Next]_vars, published' # published PROVE saved' = published'
    OBVIOUS
  <2> USE DEF vars, engineVars, mailboxVars, forecastVars, configVars, modeVars, localVars,
              debugVars, storageVars, AtLoop
  <2>1. CASE ForecastStep
    BY <2>1 DEF ForecastStep
  <2>2. CASE RestoreRead
    BY <2>2 DEF RestoreRead, RestoreFinished
  <2>3. CASE RunRequest
    BY <2>3 DEF RunRequest
  <2>4. CASE \/ Boot \/ LoadConfig \/ Mount \/ StartScan \/ Reinit \/ CheckRunnable
             \/ ChooseWait \/ DecideVeto \/ Receive \/ SaveConfig \/ TakeTurn
             \/ RestoreUnmounted \/ RunSelftest \/ StepEngine \/ Publish
    BY <2>4
    DEF Boot, LoadConfig, Mount, StartScan, Reinit, CheckRunnable, ChooseWait, DecideVeto,
        Receive, SaveConfig, TakeTurn, RestoreUnmounted, RestoreFinished, RunSelftest,
        StepEngine, Publish
  <2>5. CASE WaitExpires("short") \/ WaitExpires("long")
    BY <2>5 DEF WaitExpires
  <2>6. CASE ForecastBegin \/ ForecastWrite \/ ForecastCommit \/ ForecastCleanup
    BY <2>6 DEF ForecastBegin, ForecastWrite, ForecastCommit, ForecastCleanup, Transact
  <2>7. CASE DebugContinues
    BY <2>7
    DEF DebugContinues, SendWake, TextSubmit, AnswerBinary, ContinueListing, LeaveSession,
        Release, FileRequest, SendConfig, PauseScan
  <2>8. CASE \/ EnterBinary \/ TextCommand \/ BinarySubmit \/ CloseBinary \/ CancelUpload
             \/ TakeFileResult \/ RequestForecast \/ TakeForecastResult \/ RequestFormat
             \/ PollConfig \/ SetMode
    BY <2>8
    DEF EnterBinary, TextCommand, EnterSession, Acquire, BinarySubmit, FileRequest, CloseBinary,
        CancelUpload, TakeFileResult, RequestForecast, TakeForecastResult, RequestFormat,
        PollConfig, SetMode
  <2> QED
    BY <2>1, <2>2, <2>3, <2>4, <2>5, <2>6, <2>7, <2>8 DEF Next, StorageTask, DebugTask
<1> QED BY <1>1, PTL DEF Spec, PublishAfterRename

=============================================================================
