----------------------------- MODULE StorageProofs -----------------------------
(***************************************************************************)
(* Proofs about Storage: type correctness, and the ownership of the file   *)
(* mailbox, of the upload and of the retained answer, for every set of     *)
(* batches, every repertoire of the peer and every file length.            *)
(*                                                                         *)
(* The first part states what one call into the file engine can do, as     *)
(* lemmas about FileEngine.  The second part strengthens the three safety  *)
(* properties to an inductive invariant and shows each action keeps it.    *)
(***************************************************************************)
EXTENDS Storage, TLAPS

(* Types of the engine's calls. *)

LEMMA AnswerType ==
  ASSUME NEW e \in Engine, NEW ok \in BOOLEAN
  PROVE  Answer(e, ok) \in Reply
BY DEF Answer, Reply

LEMMA FreshType ==
  ASSUME NEW s \in EngineStates, NEW n \in 0..MaxChunks
  PROVE  Fresh(s, n) \in Engine
BY DEF Fresh, Engine

LEMMA FaultedType ==
  ASSUME NEW e \in Engine
  PROVE  Faulted(e) \in Engine
BY DEF Faulted, Engine, EngineStates

(* An abort ends the upload and the commit. *)
LEMMA AbortedFacts ==
  ASSUME NEW e \in Engine, NEW r \in Aborted(e)
  PROVE  /\ r \in Reply /\ ~r.deferred
         /\ r.engine.upload = "none" /\ r.engine.commit = "idle"
<1> DEFINE a == [e EXCEPT !.upload = "none", !.commit = "idle"]
<1>1. a \in Engine /\ a.upload = "none" /\ a.commit = "idle"
  BY DEF Engine, Users
<1>2. CASE e.state = "ERROR"
  <2>1. r = Answer(a, FALSE)
    BY <1>2 DEF Aborted
  <2> HIDE DEF a
  <2> QED BY <1>1, <2>1 DEF Answer, Reply
<1>3. CASE e.state # "ERROR"
  <2>1. PICK b \in MaybeFaulted(a), ok \in BOOLEAN : r = Answer(b, ok)
    BY <1>3 DEF Aborted
  <2>2. b \in Engine /\ b.upload = "none" /\ b.commit = "idle"
    <3> HIDE DEF a
    <3> QED BY <1>1, FaultedType DEF MaybeFaulted, Faulted, Engine
  <2> QED BY <2>1, <2>2 DEF Answer, Reply
<1> QED BY <1>2, <1>3

Mounted(e) == e.upload # "none" => e.state \in {"READY", "ERROR"}

(* What every call of file_store_execute keeps: an upload only exists on a  *)
(* mount that was ready, the call begins one for its own client only, a     *)
(* cancel and a successful format leave none, and only a successful commit  *)
(* of an upload defers its answer.                                          *)
CallFacts(e, op, user, r) ==
  /\ r \in Reply
  /\ Mounted(e) => Mounted(r.engine)
  /\ r.engine.upload \in {e.upload, "none"} \/ (op = "BEGIN" /\ r.engine.upload = user)
  /\ op = "CANCEL" /\ e.commit = "idle" /\ Mounted(e) => r.engine.upload = "none"
  /\ op = "FORMAT" /\ r.ok => r.engine.upload = "none"
  /\ r.deferred => /\ op = "COMMIT" /\ r.ok /\ e.upload # "none"
                   /\ r.engine.upload = e.upload /\ r.engine.commit = "verifying"
  /\ ~r.deferred /\ e.commit = "idle" => r.engine.commit = "idle"

LEMMA RefusedFacts ==
  ASSUME NEW e \in Engine, NEW op \in EngineOps, NEW user, NEW r \in Refused(e),
         op = "CANCEL" => e.commit # "idle" \/ e.state \notin {"READY", "ERROR"}
  PROVE  CallFacts(e, op, user, r)
<1>1. r = Answer(e, FALSE) /\ r \in Reply
  BY AnswerType DEF Refused
<1>2. r.engine = e /\ r.ok = FALSE /\ r.deferred = FALSE
  BY <1>1 DEF Answer
<1>3. e.upload \in Users \cup {"none"}
  BY DEF Engine
<1> QED BY <1>1, <1>2, <1>3 DEF CallFacts, Mounted

LEMMA AbortedCallFacts ==
  ASSUME NEW e \in Engine, NEW op \in EngineOps, NEW user, NEW r \in Aborted(e)
  PROVE  CallFacts(e, op, user, r)
BY AbortedFacts DEF CallFacts, Mounted

LEMMA AbortedInErrorFacts ==
  ASSUME NEW e \in Engine, NEW op \in EngineOps, NEW user,
         NEW r \in AbortedInError(e) \cup AbortedInError(Faulted(e))
  PROVE  CallFacts(e, op, user, r)
<1>1. PICK f \in {e, Faulted(e)} : \E q \in Aborted(f) : r = Answer(q.engine, FALSE)
  BY DEF AbortedInError
<1>2. f \in Engine
  BY FaultedType
<1>3. PICK q \in Aborted(f) : r = Answer(q.engine, FALSE)
  BY <1>1
<1>4. q \in Reply /\ q.engine.upload = "none" /\ q.engine.commit = "idle"
  BY <1>2, AbortedFacts
<1>5. q.engine \in Engine
  BY <1>4 DEF Reply
<1>6. r \in Reply /\ r.engine = q.engine /\ r.ok = FALSE /\ r.deferred = FALSE
  BY <1>3, <1>5, AnswerType DEF Answer
<1> QED BY <1>4, <1>6 DEF CallFacts, Mounted

LEMMA FormatFacts ==
  ASSUME NEW e \in Engine, NEW user, NEW r \in Format(e)
  PROVE  CallFacts(e, "FORMAT", user, r)
<1>1. CASE e.upload # "none" \/ e.state \in {"UNAVAILABLE", "INITIALIZING"}
  BY <1>1, RefusedFacts DEF Format, EngineOps
<1>2. CASE ~(e.upload # "none" \/ e.state \in {"UNAVAILABLE", "INITIALIZING"})
  <2>1. PICK f \in {[e EXCEPT !.state = "READY"], Faulted(e)}, ok \in BOOLEAN : r = Answer(f, ok)
    BY <1>2 DEF Format
  <2>2. f \in Engine /\ f.upload = "none" /\ f.commit = e.commit
    BY <1>2, FaultedType DEF Faulted, Engine, EngineStates
  <2>3. r \in Reply /\ r.engine = f /\ r.deferred = FALSE
    BY <2>1, <2>2, AnswerType DEF Answer
  <2> QED BY <2>2, <2>3 DEF CallFacts, Mounted
<1> QED BY <1>1, <1>2

LEMMA BeginFacts ==
  ASSUME NEW e \in Engine, NEW user \in Users \cup {"none"}, NEW r \in Begin(e, user),
         e.state = "READY"
  PROVE  CallFacts(e, "BEGIN", user, r)
<1>1. CASE e.upload # "none"
  BY <1>1, RefusedFacts DEF Begin, EngineOps
<1>2. CASE e.upload = "none"
  <2>1. PICK g \in {e, [e EXCEPT !.upload = user]} :
          \E f \in MaybeFaulted(g), ok \in BOOLEAN : r = Answer(f, ok)
    BY <1>2 DEF Begin
  <2>2. g \in Engine /\ g.upload \in {"none", user} /\ g.commit = e.commit /\ g.state = "READY"
    BY <1>2 DEF Engine
  <2>3. PICK f \in MaybeFaulted(g), ok \in BOOLEAN : r = Answer(f, ok)
    BY <2>1
  <2>4. f \in Engine /\ f.upload = g.upload /\ f.commit = e.commit /\ f.state \in {"READY", "ERROR"}
    BY <2>2, FaultedType DEF MaybeFaulted, Faulted, Engine
  <2>5. r \in Reply /\ r.engine = f /\ r.deferred = FALSE
    BY <2>3, <2>4, AnswerType DEF Answer
  <2> QED BY <1>2, <2>2, <2>4, <2>5 DEF CallFacts, Mounted
<1> QED BY <1>1, <1>2

LEMMA WriteFacts ==
  ASSUME NEW e \in Engine, NEW user, NEW r \in Write(e)
  PROVE  CallFacts(e, "WRITE", user, r)
<1>1. CASE r \in Refused(e)
  BY <1>1, RefusedFacts DEF EngineOps
<1>2. CASE r \in AbortedInError(e) \cup AbortedInError(Faulted(e))
  BY <1>2, AbortedInErrorFacts DEF EngineOps
<1>3. CASE r = Answer(e, TRUE)
  <2>1. r \in Reply /\ r.engine = e /\ r.deferred = FALSE
    BY <1>3, AnswerType DEF Answer
  <2> QED BY <2>1 DEF CallFacts, Mounted
<1> QED BY <1>1, <1>2, <1>3 DEF Write

LEMMA CommitFacts ==
  ASSUME NEW e \in Engine, NEW user, NEW r \in Commit(e)
  PROVE  CallFacts(e, "COMMIT", user, r)
<1>1. CASE r \in Refused(e)
  BY <1>1, RefusedFacts DEF EngineOps
<1>2. CASE r \in AbortedInError(e) \cup AbortedInError(Faulted(e))
  BY <1>2, AbortedInErrorFacts DEF EngineOps
<1>3. CASE e.upload # "none" /\ r \notin Refused(e)
             /\ r \notin AbortedInError(e) \cup AbortedInError(Faulted(e))
  <2>1. PICK n \in 0..MaxChunks :
          r = [engine |-> [e EXCEPT !.commit = "verifying", !.left = n],
               ok |-> TRUE, deferred |-> TRUE]
    BY <1>3 DEF Commit
  <2>2. [e EXCEPT !.commit = "verifying", !.left = n] \in Engine
    BY DEF Engine
  <2> QED BY <1>3, <2>1, <2>2 DEF CallFacts, Mounted, Reply, Engine
<1> QED BY <1>1, <1>2, <1>3 DEF Commit

LEMMA SimpleFacts ==
  ASSUME NEW e \in Engine, NEW user, NEW r \in Simple(e), e.state = "READY"
  PROVE  CallFacts(e, "SIMPLE", user, r)
<1>1. PICK f \in MaybeFaulted(e), ok \in BOOLEAN : r = Answer(f, ok)
  BY DEF Simple
<1>2. f \in Engine /\ f.upload = e.upload /\ f.commit = e.commit /\ Mounted(f)
  BY FaultedType DEF MaybeFaulted, Faulted, Engine, Mounted
<1>3. r \in Reply /\ r.engine = f /\ r.deferred = FALSE
  BY <1>1, <1>2, AnswerType DEF Answer
<1> QED BY <1>2, <1>3 DEF CallFacts, Mounted

LEMMA ExecuteFacts ==
  ASSUME NEW e \in Engine, NEW op \in EngineOps, NEW user \in Users \cup {"none"},
         NEW r \in Execute(e, op, user)
  PROVE  CallFacts(e, op, user, r)
<1>1. CASE e.commit # "idle"
  BY <1>1, RefusedFacts DEF Execute
<1>2. CASE e.commit = "idle" /\ op = "FORMAT"
  BY <1>2, FormatFacts DEF Execute
<1>3. CASE e.commit = "idle" /\ op = "CANCEL"
  BY <1>3, RefusedFacts, AbortedCallFacts DEF Execute, Cancel
<1>4. CASE e.commit = "idle" /\ op \notin {"FORMAT", "CANCEL"} /\ e.state # "READY"
  BY <1>4, RefusedFacts DEF Execute
<1>5. CASE e.commit = "idle" /\ e.state = "READY" /\ op = "BEGIN"
  BY <1>5, BeginFacts DEF Execute
<1>6. CASE e.commit = "idle" /\ e.state = "READY" /\ op = "WRITE"
  BY <1>6, WriteFacts DEF Execute
<1>7. CASE e.commit = "idle" /\ e.state = "READY" /\ op = "COMMIT"
  BY <1>7, CommitFacts DEF Execute
<1>8. CASE e.commit = "idle" /\ e.state = "READY" /\ op = "SIMPLE"
  BY <1>8, SimpleFacts DEF Execute
<1> QED BY <1>1, <1>2, <1>3, <1>4, <1>5, <1>6, <1>7, <1>8 DEF EngineOps

(* Reading the forecast file back leaves upload and commit alone.           *)
LEMMA ReadFacts ==
  ASSUME NEW e \in Engine, NEW r \in Read(e)
  PROVE  /\ r \in Reply /\ (Mounted(e) => Mounted(r.engine))
         /\ r.engine.upload = e.upload /\ r.engine.commit = e.commit
<1>1. PICK f \in {e, Faulted(e)}, ok \in BOOLEAN : r = Answer(f, ok)
  BY DEF Read, Refused
<1>2. f \in Engine /\ f.upload = e.upload /\ f.commit = e.commit /\ (Mounted(e) => Mounted(f))
  BY FaultedType DEF Faulted, Engine, Mounted
<1>3. r \in Reply /\ r.engine = f
  BY <1>1, <1>2, AnswerType DEF Answer
<1> QED BY <1>2, <1>3

(* A mount starts without an upload and without a commit.                   *)
LEMMA InitEnginesFacts ==
  ASSUME NEW online \in BOOLEAN, NEW e \in InitEngines(online)
  PROVE  e \in Engine /\ e.upload = "none" /\ e.commit = "idle"
<1>1. PICK s \in EngineStates, n \in {0, MaxChunks} : e = Fresh(s, n)
  BY DEF InitEngines, EngineStates
<1>2. n \in 0..MaxChunks
  BY MaxChunksAssumption
<1> QED BY <1>1, <1>2, FreshType DEF Fresh

LEMMA CompletedFacts ==
  ASSUME NEW e \in Engine, NEW f \in Completed(e)
  PROVE  f \in Engine /\ f.upload = "none" /\ f.commit = "done"
<1>1. PICK g \in MaybeFaulted(e), ok \in BOOLEAN : f = Ended(g, ok)
  BY DEF Completed
<1>2. g \in Engine
  BY FaultedType DEF MaybeFaulted
<1>3. 0 \in 0..MaxChunks
  BY MaxChunksAssumption
<1> QED BY <1>1, <1>2, <1>3 DEF Ended, Engine

(* One file_store_step: a commit ends with its upload, and nothing else     *)
(* touches either.                                                          *)
LEMMA EngineStepsFacts ==
  ASSUME NEW e \in Engine, NEW f \in EngineSteps(e)
  PROVE  /\ f \in Engine
         /\ Mounted(e) /\ (e.commit # "idle" => e.upload # "none") =>
              /\ Mounted(f)
              /\ e.commit = "idle" => f.upload = e.upload /\ f.commit = "idle"
              /\ e.commit = "verifying" => \/ f.upload = e.upload /\ f.commit = "verifying"
                                           \/ f.upload = "none" /\ f.commit = "done"
<1>1. CASE e.state = "INITIALIZING"
  <2>1. f \in BlankSteps(e)
    BY <1>1 DEF EngineSteps
  <2>2. Mounted(e) /\ (e.commit # "idle" => e.upload # "none") =>
          e.upload = "none" /\ e.commit = "idle"
    BY <1>1 DEF Mounted, Engine
  <2>3. 0 \in 0..MaxChunks
    BY MaxChunksAssumption
  <2>4. CASE f = [e EXCEPT !.state = "ERROR", !.left = 0]
    BY <2>2, <2>3, <2>4 DEF Engine, EngineStates, Mounted
  <2>5. CASE f = [e EXCEPT !.state = "UNFORMATTED"]
    BY <2>2, <2>5 DEF Engine, EngineStates, Mounted
  <2>6. CASE e.left # 0 /\ f = [e EXCEPT !.left = e.left - 1]
    <3>1. e.left - 1 \in 0..MaxChunks
      BY <2>6, MaxChunksAssumption DEF Engine
    <3> QED BY <2>2, <2>6, <3>1 DEF Engine, Mounted
  <2> QED BY <2>1, <2>4, <2>5, <2>6 DEF BlankSteps
<1>2. CASE e.state # "INITIALIZING" /\ e.commit = "verifying"
  <2>1. f \in VerifySteps(e)
    BY <1>2 DEF EngineSteps
  <2>2. CASE f \in Completed(e)
    BY <1>2, <2>2, CompletedFacts DEF Mounted
  <2>3. CASE e.left # 0 /\ f = [e EXCEPT !.left = e.left - 1]
    <3>1. e.left - 1 \in 0..MaxChunks
      BY <2>3, MaxChunksAssumption DEF Engine
    <3> QED BY <1>2, <2>3, <3>1 DEF Engine, Mounted
  <2> QED BY <2>1, <2>2, <2>3 DEF VerifySteps
<1>3. CASE e.state # "INITIALIZING" /\ e.commit # "verifying"
  <2>1. f = e
    BY <1>3 DEF EngineSteps
  <2> QED BY <1>3, <2>1 DEF Mounted
<1> QED BY <1>1, <1>2, <1>3

LEMMA PolledFacts ==
  ASSUME NEW e \in Engine
  PROVE  /\ Polled(e) \in Engine /\ Polled(e).upload = e.upload
         /\ Polled(e).commit = "idle" /\ Polled(e).state = e.state
BY DEF Polled, Engine

-----------------------------------------------------------------------------
(* The inductive invariant.                                                 *)

(* debugTask holds the lock whenever it is in a session; what it waits for  *)
(* is what it asked for, and what each kind of session may ask for.         *)
SessionInv ==
  /\ dmode # "console" => session
  /\ dmode \in {"console", "closing"} => dreq = "none"
  /\ dnext = "submit" => dmode = "text"
  /\ dnext = "taken" => fileState = "IDLE"
  /\ fileState # "IDLE" => dreq # "none"
  /\ fileState \in {"PENDING", "RUNNING"} => fileRequest = [by |-> "file", op |-> dreq]
  /\ dmode = "text" /\ fileState # "IDLE" => dreq \in {"SIMPLE", "FORMAT", "SELFTEST"}
  /\ dmode = "cancelling" /\ fileState # "IDLE" => dreq = "CANCEL"

(* Where storageTask is tells whose turn it took, whatever was accepted     *)
(* from debugTask since.                                                    *)
TurnInv ==
  /\ storage = "execute" => fileState = "RUNNING"
  /\ storage \in {"forecast", "forecastStep"} => fileState # "RUNNING"
  /\ storage \in {"execute", "step"} =>
       forecastState \notin {"WRITE", "COMMIT", "VERIFY", "CLEANUP"}
  /\ storage = "forecast" /\ forecastState = "RESTORE" => fileOwner = "FORECAST"

(* An upload of the file client only exists inside a binary session and     *)
(* does not survive the cancel of its cleanup; a commit under verification  *)
(* has exactly one client waiting for it.                                   *)
UploadInv ==
  /\ Mounted(engine)
  /\ engine.commit # "done"
  /\ engine.commit = "verifying" =>
       \/ /\ engine.upload = "file" /\ fileState = "RUNNING"
          /\ storage # "execute" /\ dreq = "COMMIT"
       \/ engine.upload = "forecast" /\ forecastState = "VERIFY"
  /\ engine.upload = "file" =>
       /\ dmode \in {"binary", "closing", "cancelling"}
       /\ dmode = "cancelling" => fileState = "PENDING" \/ storage = "execute"

Owned == OneOwner /\ UploadOwned /\ AnswerIsOwn /\ SessionInv /\ TurnInv /\ UploadInv

IInv == TypeOK /\ Owned

-----------------------------------------------------------------------------
(* Type correctness. *)

LEMMA InitType == Init => TypeOK
<1> SUFFICES ASSUME Init PROVE TypeOK
  OBVIOUS
<1>1. engine \in Engine /\ files \in Snapshot
  BY FreshType, MaxChunksAssumption DEF Init, EngineStates, Snapshot
<1>2. fileRequest \in Scratch /\ fileResponse \in Scratch /\ plan \in Plan
  BY DEF Init, Scratch, Users, FileOps, EngineOps, NoPlan, Plan
<1>3. /\ scanning \in BOOLEAN /\ session \in BOOLEAN /\ forecastReady \in BOOLEAN
      /\ forecastOk \in BOOLEAN /\ configReady \in BOOLEAN /\ configBusy \in BOOLEAN
      /\ paused \in BOOLEAN /\ hold \in BOOLEAN /\ veto \in BOOLEAN
      /\ dforecast \in BOOLEAN /\ dconfig \in BOOLEAN /\ dwake \in BOOLEAN
  BY Zenon DEF Init
<1> QED BY <1>1, <1>2, <1>3 DEF Init, TypeOK, StorageSteps, FileOps, ForecastStates

LEMMA FileRequestType ==
  ASSUME NEW op \in FileOps, FileRequest(op)
  PROVE  fileRequest' \in Scratch /\ dreq' \in FileOps
BY DEF FileRequest, Scratch, Users

LEMMA NextType == TypeOK /\ [Next]_vars => TypeOK'
<1> SUFFICES ASSUME TypeOK, [Next]_vars PROVE TypeOK'
  OBVIOUS
<1> USE DEF vars, engineVars, mailboxVars, forecastVars, configVars, modeVars, localVars,
            debugVars, storageVars
<1>1. CASE Boot
  BY <1>1 DEF Boot, TypeOK, StorageSteps
<1>2. CASE LoadConfig
  BY <1>2 DEF LoadConfig, TypeOK, StorageSteps
<1>3. CASE Mount
  <2>1. PICK online \in BOOLEAN :
          \E e \in InitEngines(online) :
             /\ engine' = e
             /\ files' = [state |-> e.state, upload |-> Uploading(e)]
    BY <1>3 DEF Mount, TypeOK
  <2>2. engine' \in InitEngines(online)
        /\ files' = [state |-> engine'.state, upload |-> Uploading(engine')]
    BY <2>1
  <2>3. engine' \in Engine /\ files' \in Snapshot
    BY <2>2, InitEnginesFacts DEF Engine, Snapshot, Uploading
  <2> QED BY <1>3, <2>3 DEF Mount, TypeOK, StorageSteps
<1>4. CASE StartScan
  BY <1>4 DEF StartScan, TypeOK, StorageSteps
<1>5. CASE Reinit
  <2>1. engine' \in Engine
    BY <1>5, InitEnginesFacts DEF Reinit
  <2>2. forecastReady' \in BOOLEAN
    BY <1>5, Zenon DEF Reinit
  <2> QED BY <1>5, <2>1, <2>2 DEF Reinit, TypeOK, StorageSteps, ForecastStates
<1>6. CASE CheckRunnable
  <2>1. plan' \in Plan
    BY <1>6 DEF CheckRunnable, TypeOK, Plan, RestoreRunnable
  <2> QED BY <1>6, <2>1 DEF CheckRunnable, TypeOK, StorageSteps
<1>7. CASE ChooseWait
  <2>1. plan' \in Plan
    BY <1>7 DEF ChooseWait, TypeOK, Plan
  <2> QED BY <1>7, <2>1 DEF ChooseWait, TypeOK, StorageSteps
<1>8. CASE DecideVeto
  <2>1. plan' \in Plan /\ veto' \in BOOLEAN
    BY <1>8 DEF DecideVeto, TypeOK, Plan
  <2> QED BY <1>8, <2>1 DEF DecideVeto, TypeOK, StorageSteps
<1>9. CASE Receive
  <2>1. plan' \in Plan
    BY <1>9 DEF Receive, NoPlan, Plan
  <2> QED BY <1>9, <2>1 DEF Receive, TypeOK, StorageSteps
<1>10. ASSUME NEW w \in {"short", "long"}, WaitExpires(w) PROVE TypeOK'
  <2>1. plan' \in Plan
    BY <1>10 DEF WaitExpires, NoPlan, Plan
  <2> QED BY <1>10, <2>1 DEF WaitExpires, TypeOK, StorageSteps
<1>11. CASE SaveConfig
  <2>1. configBusy' \in BOOLEAN
    BY <1>11, Zenon DEF SaveConfig
  <2> QED BY <1>11, <2>1 DEF SaveConfig, TypeOK, StorageSteps
<1>12. CASE TakeTurn
  BY <1>12 DEF TakeTurn, RestoreRunnable, TypeOK, StorageSteps
<1>13. CASE RestoreUnmounted
  <2>1. forecastOk' \in BOOLEAN
    BY <1>13, Zenon DEF RestoreUnmounted, RestoreFinished
  <2> QED BY <1>13, <2>1 DEF RestoreUnmounted, RestoreFinished, TypeOK, StorageSteps, ForecastStates
<1>14. CASE RestoreRead
  <2>1. PICK r \in Read(engine) :
          /\ engine' = r.engine
          /\ published' = IF r.ok /\ saved \in Batches THEN saved ELSE published
          /\ RestoreFinished(r.ok /\ saved # BadFile)
    BY <1>14 DEF RestoreRead
  <2>2. engine' \in Engine
    BY <2>1, ReadFacts DEF TypeOK, Reply
  <2>3. fileRequest' \in Scratch /\ fileResponse' \in Scratch
    BY <1>14 DEF RestoreRead, ForecastScratch, Scratch, Users, FileOps, EngineOps
  <2> QED BY <1>14, <2>1, <2>2, <2>3
          DEF RestoreRead, RestoreFinished, TypeOK, StorageSteps, ForecastStates
<1>15. CASE ForecastBegin
  <2>1. PICK r \in Execute(engine, "BEGIN", "forecast") : engine' = r.engine
    BY <1>15 DEF ForecastBegin, Transact
  <2>2. engine' \in Engine
    BY <2>1, ExecuteFacts DEF TypeOK, CallFacts, Reply, EngineOps, Users
  <2>3. fileRequest' \in Scratch /\ fileResponse' \in Scratch
    BY <1>15 DEF ForecastBegin, Transact, ForecastScratch, Scratch, Users, FileOps, EngineOps
  <2> QED BY <1>15, <2>2, <2>3
          DEF ForecastBegin, Transact, TypeOK, StorageSteps, ForecastStates, ForecastRunning
<1>16. CASE ForecastWrite
  <2>1. PICK r \in Execute(engine, "WRITE", "forecast") : engine' = r.engine
    BY <1>16 DEF ForecastWrite, Transact
  <2>2. engine' \in Engine
    BY <2>1, ExecuteFacts DEF TypeOK, CallFacts, Reply, EngineOps, Users
  <2>3. fileRequest' \in Scratch /\ fileResponse' \in Scratch
    BY <1>16 DEF ForecastWrite, Transact, ForecastScratch, Scratch, Users, FileOps, EngineOps
  <2> QED BY <1>16, <2>2, <2>3
          DEF ForecastWrite, Transact, TypeOK, StorageSteps, ForecastStates, ForecastRunning
<1>17. CASE ForecastCommit
  <2>1. PICK r \in Execute(engine, "COMMIT", "forecast") : engine' = r.engine
    BY <1>17 DEF ForecastCommit, Transact
  <2>2. engine' \in Engine
    BY <2>1, ExecuteFacts DEF TypeOK, CallFacts, Reply, EngineOps, Users
  <2>3. fileRequest' \in Scratch /\ fileResponse' \in Scratch
    BY <1>17 DEF ForecastCommit, Transact, ForecastScratch, Scratch, Users, FileOps, EngineOps
  <2> QED BY <1>17, <2>2, <2>3
          DEF ForecastCommit, Transact, TypeOK, StorageSteps, ForecastStates, ForecastRunning
<1>18. CASE ForecastCleanup
  <2>1. PICK r \in Execute(engine, "CANCEL", "forecast") : engine' = r.engine
    BY <1>18 DEF ForecastCleanup
  <2>2. engine' \in Engine
    BY <2>1, ExecuteFacts DEF TypeOK, CallFacts, Reply, EngineOps, Users
  <2>3. fileRequest' \in Scratch /\ fileResponse' \in Scratch
    BY <1>18 DEF ForecastCleanup, ForecastScratch, Scratch, Users, FileOps, EngineOps
  <2>4. forecastOk' \in BOOLEAN
    BY <1>18, Zenon DEF ForecastCleanup
  <2> QED BY <1>18, <2>2, <2>3, <2>4 DEF ForecastCleanup, TypeOK, StorageSteps, ForecastStates
<1>19. CASE ForecastStep
  <2>1. PICK e \in EngineSteps(engine) :
          /\ engine' \in {e, Polled(e)}
          /\ fileResponse' \in {fileResponse, [by |-> engine.upload, op |-> "COMMIT"]}
          /\ forecastOk' \in {forecastOk, TRUE}
    BY <1>19 DEF ForecastStep
  <2>2. engine' \in Engine
    BY <2>1, EngineStepsFacts, PolledFacts DEF TypeOK
  <2>3. fileResponse' \in Scratch
    BY <2>1 DEF TypeOK, Scratch, Engine, FileOps, EngineOps
  <2>4. saved' \in {saved, candidate} /\ published' \in {published, candidate}
    BY <1>19 DEF ForecastStep
  <2>5. forecastState' \in ForecastStates
    BY <1>19 DEF ForecastStep, TypeOK, ForecastStates, ForecastRunning
  <2>6. saved' \in Batches \cup {NoBatch, BadFile} /\ published' \in Batches \cup {NoBatch}
    BY <2>4 DEF TypeOK
  <2>7. forecastOk' \in BOOLEAN
    BY <2>1, Zenon DEF TypeOK
  <2>8. /\ storage' = "publish"
        /\ UNCHANGED <<files, fileState, fileOwner, session, fileRequest, forecastReady,
                       candidate, configVars, modeVars, debugVars, queue, plan, scanning, veto>>
    BY <1>19 DEF ForecastStep
  <2> QED BY <2>2, <2>3, <2>5, <2>6, <2>7, <2>8 DEF TypeOK, StorageSteps
<1>20. CASE RunSelftest
  BY <1>20 DEF RunSelftest, TypeOK, StorageSteps
<1>21. CASE RunRequest
  <2>1. PICK r \in Execute(engine, fileRequest.op, fileRequest.by) : engine' = r.engine
    BY <1>21 DEF RunRequest
  <2>2. fileRequest.op \in EngineOps /\ fileRequest.by \in Users \cup {"none"}
    BY <1>21 DEF RunRequest, TypeOK, Scratch, FileOps
  <2>3. engine' \in Engine
    BY <2>1, <2>2, ExecuteFacts DEF TypeOK, CallFacts, Reply
  <2>4. saved' \in {saved, NoBatch} /\ published' \in {published, NoBatch}
    BY <1>21 DEF RunRequest
  <2>5. forecastOk' \in {forecastOk, TRUE} /\ forecastReady' \in {forecastReady, TRUE}
    BY <1>21 DEF RunRequest
  <2>6. forecastState' \in {forecastState, "IDLE"} /\ fileState' \in {fileState, "COMPLETE"}
    BY <1>21 DEF RunRequest
  <2>7. saved' \in Batches \cup {NoBatch, BadFile} /\ published' \in Batches \cup {NoBatch}
    BY <2>4 DEF TypeOK
  <2>8. forecastOk' \in BOOLEAN /\ forecastReady' \in BOOLEAN
    BY <2>5, Zenon DEF TypeOK
  <2>9. /\ storage' = "step" /\ fileResponse' = fileRequest
        /\ UNCHANGED <<files, fileOwner, session, fileRequest, candidate, configVars, modeVars,
                       debugVars, queue, plan, scanning, veto>>
    BY <1>21 DEF RunRequest
  <2> QED BY <2>3, <2>6, <2>7, <2>8, <2>9 DEF TypeOK, StorageSteps, ForecastStates
<1>22. CASE StepEngine
  <2>1. PICK e \in EngineSteps(engine) :
          /\ engine' \in {e, Polled(e)}
          /\ fileResponse' \in {fileResponse, [by |-> engine.upload, op |-> "COMMIT"]}
          /\ fileState' \in {fileState, "COMPLETE"}
    BY <1>22 DEF StepEngine
  <2>2. engine' \in Engine
    BY <2>1, EngineStepsFacts, PolledFacts DEF TypeOK
  <2>3. fileResponse' \in Scratch
    BY <2>1 DEF TypeOK, Scratch, Engine, FileOps, EngineOps
  <2> QED BY <1>22, <2>1, <2>2, <2>3 DEF StepEngine, TypeOK, StorageSteps
<1>23. CASE Publish
  <2>1. files' \in Snapshot
    BY <1>23 DEF Publish, TypeOK, Engine, Snapshot, Uploading
  <2>2. scanning' \in BOOLEAN
    BY <1>23 DEF Publish, TypeOK
  <2> QED BY <1>23, <2>1, <2>2 DEF Publish, TypeOK, StorageSteps
<1>24. CASE SendWake
  <2>1. dwake' \in BOOLEAN
    BY <1>24, Zenon DEF SendWake
  <2> QED BY <1>24, <2>1 DEF SendWake, TypeOK, StorageSteps
<1>25. CASE TextSubmit
  <2>1. PICK op \in FileOps : FileRequest(op)
    BY <1>25, PeerOpsAssumption DEF TextSubmit
  <2> QED BY <1>25, <2>1, FileRequestType DEF TextSubmit, TypeOK, FileRequest
<1>26. CASE AnswerBinary
  BY <1>26 DEF AnswerBinary, TypeOK, StorageSteps
<1>27. CASE ContinueListing
  <2>1. FileRequest("SIMPLE") /\ "SIMPLE" \in FileOps
    BY <1>27 DEF ContinueListing, FileOps, EngineOps
  <2> QED BY <1>27, <2>1, FileRequestType DEF ContinueListing, TypeOK, FileRequest
<1>28. CASE LeaveSession
  <2>1. session' \in BOOLEAN /\ dwake' \in BOOLEAN
    BY <1>28, Zenon DEF LeaveSession, Release, TypeOK
  <2> QED BY <1>28, <2>1 DEF LeaveSession, Release, TypeOK
<1>29. CASE SendConfig
  <2>1. configBusy' \in BOOLEAN /\ dconfig' \in BOOLEAN
    BY <1>29, Zenon DEF SendConfig, TypeOK
  <2> QED BY <1>29, <2>1 DEF SendConfig, TypeOK
<1>30. CASE PauseScan
  BY <1>30 DEF PauseScan, TypeOK, StorageSteps
<1>31. CASE EnterBinary
  BY <1>31 DEF EnterBinary, EnterSession, Acquire, TypeOK
<1>32. CASE TextCommand
  BY <1>32 DEF TextCommand, EnterSession, Acquire, TypeOK
<1>33. CASE BinarySubmit
  <2>1. PICK op \in FileOps : FileRequest(op)
    BY <1>33, PeerOpsAssumption DEF BinarySubmit
  <2> QED BY <1>33, <2>1, FileRequestType DEF BinarySubmit, TypeOK, FileRequest
<1>34. CASE CloseBinary
  BY <1>34 DEF CloseBinary, TypeOK, StorageSteps
<1>35. CASE CancelUpload
  <2>1. FileRequest("CANCEL") /\ "CANCEL" \in FileOps
    BY <1>35 DEF CancelUpload, FileOps, EngineOps
  <2> QED BY <1>35, <2>1, FileRequestType DEF CancelUpload, TypeOK, FileRequest
<1>36. CASE TakeFileResult
  BY <1>36 DEF TakeFileResult, TypeOK, StorageSteps
<1>37. CASE RequestForecast
  BY <1>37 DEF RequestForecast, TypeOK, ForecastStates, ForecastRunning
<1>38. CASE TakeForecastResult
  <2>1. dforecast' \in BOOLEAN
    BY <1>38, Zenon DEF TakeForecastResult
  <2> QED BY <1>38, <2>1 DEF TakeForecastResult, TypeOK, ForecastStates
<1>39. CASE RequestFormat
  BY <1>39 DEF RequestFormat, TypeOK, StorageSteps
<1>40. CASE PollConfig
  <2>1. dconfig' \in BOOLEAN
    BY <1>40, Zenon DEF PollConfig
  <2> QED BY <1>40, <2>1 DEF PollConfig, TypeOK, StorageSteps
<1>41. CASE SetMode
  BY <1>41, PeerModesAssumption DEF SetMode, TypeOK
<1>42. CASE UNCHANGED vars
  BY <1>42 DEF TypeOK
<1> QED
  BY <1>1, <1>2, <1>3, <1>4, <1>5, <1>6, <1>7, <1>8, <1>9, <1>10, <1>11, <1>12, <1>13,
     <1>14, <1>15, <1>16, <1>17, <1>18, <1>19, <1>20, <1>21, <1>22, <1>23, <1>24, <1>25,
     <1>26, <1>27, <1>28, <1>29, <1>30, <1>31, <1>32, <1>33, <1>34, <1>35, <1>36, <1>37,
     <1>38, <1>39, <1>40, <1>41, <1>42
  DEF Next, StorageTask, DebugTask, DebugContinues

(* Every variable of the storage service keeps its type, whatever the file  *)
(* engine answers (all of app/storage.c's shared state).                    *)
THEOREM TypeCorrect == Spec => []TypeOK
<1> QED BY InitType, NextType, PTL DEF Spec

-----------------------------------------------------------------------------
(* Ownership. *)

LEMMA InitOwned == Init => Owned
BY DEF Init, Owned, OneOwner, UploadOwned, AnswerIsOwn, SessionInv, TurnInv, UploadInv,
       Mounted, Fresh, ForecastRunning

LEMMA NextOwned == IInv /\ TypeOK' /\ [Next]_vars => Owned'
<1> SUFFICES ASSUME IInv, TypeOK', [Next]_vars PROVE Owned'
  OBVIOUS
<1> USE DEF vars, engineVars, mailboxVars, forecastVars, configVars, modeVars, localVars,
            debugVars, storageVars
<1> USE DEF Owned, OneOwner, UploadOwned, AnswerIsOwn, SessionInv, TurnInv, UploadInv, ForecastRunning
<1>1. CASE Boot
  BY <1>1 DEF IInv, Boot
<1>2. CASE LoadConfig
  BY <1>2 DEF IInv, LoadConfig
<1>3. CASE Mount
  <2>1. \E online \in BOOLEAN : engine' \in InitEngines(online)
    BY <1>3 DEF Mount, IInv, TypeOK
  <2>2. engine'.upload = "none" /\ engine'.commit = "idle"
    BY <2>1, InitEnginesFacts
  <2> QED BY <1>3, <2>2 DEF IInv, Mount, Mounted
<1>4. CASE StartScan
  BY <1>4 DEF IInv, StartScan
<1>5. CASE Reinit
  <2>1. engine'.upload = "none" /\ engine'.commit = "idle"
    BY <1>5, InitEnginesFacts DEF Reinit
  <2> QED BY <1>5, <2>1 DEF IInv, Reinit, Mounted
<1>6. CASE CheckRunnable
  BY <1>6 DEF IInv, CheckRunnable
<1>7. CASE ChooseWait
  BY <1>7 DEF IInv, ChooseWait
<1>8. CASE DecideVeto
  BY <1>8 DEF IInv, DecideVeto
<1>9. CASE Receive
  BY <1>9 DEF IInv, Receive
<1>10. ASSUME NEW w \in {"short", "long"}, WaitExpires(w) PROVE Owned'
  BY <1>10 DEF IInv, WaitExpires
<1>11. CASE SaveConfig
  BY <1>11 DEF IInv, SaveConfig
<1>12. CASE TakeTurn
  BY <1>12 DEF IInv, TakeTurn, RestoreRunnable
<1>13. CASE RestoreUnmounted
  BY <1>13 DEF IInv, RestoreUnmounted, RestoreFinished
<1>14. CASE RestoreRead
  <2>1. /\ engine'.upload = engine.upload /\ engine'.commit = engine.commit
        /\ Mounted(engine) => Mounted(engine')
    BY <1>14, ReadFacts DEF RestoreRead, IInv, TypeOK
  <2>2. /\ fileRequest' = [by |-> "forecast", op |-> "SIMPLE"]
        /\ fileResponse' = [by |-> "forecast", op |-> "SIMPLE"]
        /\ storage = "forecast" /\ forecastState = "RESTORE"
        /\ storage' = "forecastStep" /\ forecastState' = "IDLE"
        /\ fileOwner' = IF fileOwner = "FORECAST" THEN "NONE" ELSE fileOwner
        /\ UNCHANGED <<files, fileState, session, debugVars>>
    BY <1>14 DEF RestoreRead, RestoreFinished, ForecastScratch
  <2> QED BY <2>1, <2>2 DEF IInv
<1>15. CASE ForecastBegin
  <2>1. PICK r \in Execute(engine, "BEGIN", "forecast") :
          /\ engine' = r.engine
          /\ forecastState' = IF r.ok THEN "WRITE" ELSE "CLEANUP"
    BY <1>15 DEF ForecastBegin, Transact
  <2>2. CallFacts(engine, "BEGIN", "forecast", r)
    BY ExecuteFacts DEF IInv, TypeOK, EngineOps, Users
  <2>3. /\ fileRequest' = [by |-> "forecast", op |-> "BEGIN"]
        /\ fileResponse' = [by |-> "forecast", op |-> "BEGIN"]
        /\ storage = "forecast" /\ storage' = "forecastStep" /\ forecastState = "PENDING"
        /\ UNCHANGED <<files, fileState, fileOwner, session, debugVars>>
    BY <1>15 DEF ForecastBegin, Transact, ForecastScratch
  <2>4. engine.commit = "idle" /\ engine.upload # "file" /\ fileState = "IDLE"
    BY <2>3 DEF IInv, TypeOK, Engine
  <2> QED BY <2>1, <2>2, <2>3, <2>4 DEF IInv, CallFacts
<1>16. CASE ForecastWrite
  <2>1. PICK r \in Execute(engine, "WRITE", "forecast") :
          /\ engine' = r.engine
          /\ forecastState' = IF r.ok THEN "COMMIT" ELSE "CLEANUP"
    BY <1>16 DEF ForecastWrite, Transact
  <2>2. CallFacts(engine, "WRITE", "forecast", r)
    BY ExecuteFacts DEF IInv, TypeOK, EngineOps, Users
  <2>3. /\ fileRequest' = [by |-> "forecast", op |-> "WRITE"]
        /\ fileResponse' = [by |-> "forecast", op |-> "WRITE"]
        /\ storage = "forecast" /\ storage' = "forecastStep" /\ forecastState = "WRITE"
        /\ UNCHANGED <<files, fileState, fileOwner, session, debugVars>>
    BY <1>16 DEF ForecastWrite, Transact, ForecastScratch
  <2>4. engine.commit = "idle" /\ engine.upload # "file" /\ fileState = "IDLE"
    BY <2>3 DEF IInv, TypeOK, Engine
  <2> QED BY <2>1, <2>2, <2>3, <2>4 DEF IInv, CallFacts
<1>17. CASE ForecastCommit
  <2>1. PICK r \in Execute(engine, "COMMIT", "forecast") :
          /\ engine' = r.engine
          /\ forecastState' = IF r.ok THEN "VERIFY" ELSE "CLEANUP"
    BY <1>17 DEF ForecastCommit, Transact
  <2>2. CallFacts(engine, "COMMIT", "forecast", r)
    BY ExecuteFacts DEF IInv, TypeOK, EngineOps, Users
  <2>3. /\ fileRequest' = [by |-> "forecast", op |-> "COMMIT"]
        /\ fileResponse' = [by |-> "forecast", op |-> "COMMIT"]
        /\ storage = "forecast" /\ storage' = "forecastStep" /\ forecastState = "COMMIT"
        /\ UNCHANGED <<files, fileState, fileOwner, session, debugVars>>
    BY <1>17 DEF ForecastCommit, Transact, ForecastScratch
  <2>4. engine.commit = "idle" /\ engine.upload \in {"none", "forecast"} /\ fileState = "IDLE"
    BY <2>3 DEF IInv, TypeOK, Engine, Users
  <2> QED BY <2>1, <2>2, <2>3, <2>4 DEF IInv, CallFacts
<1>18. CASE ForecastCleanup
  <2>1. PICK r \in Execute(engine, "CANCEL", "forecast") : engine' = r.engine
    BY <1>18 DEF ForecastCleanup
  <2>2. CallFacts(engine, "CANCEL", "forecast", r)
    BY ExecuteFacts DEF IInv, TypeOK, EngineOps, Users
  <2>3. /\ fileRequest' = [by |-> "forecast", op |-> "CANCEL"]
        /\ fileResponse' = [by |-> "forecast", op |-> "CANCEL"]
        /\ storage = "forecast" /\ storage' = "forecastStep"
        /\ forecastState = "CLEANUP" /\ forecastState' = "COMPLETE"
        /\ UNCHANGED <<files, fileState, fileOwner, session, debugVars>>
    BY <1>18 DEF ForecastCleanup, ForecastScratch
  <2>4. engine.commit = "idle" /\ fileState = "IDLE"
    BY <2>3 DEF IInv, TypeOK, Engine
  <2>5. engine'.upload = "none" /\ engine'.commit = "idle"
    <3>1. Mounted(engine)
      BY DEF IInv
    <3> QED BY <2>1, <2>2, <2>4, <3>1 DEF CallFacts
  <2> QED BY <2>3, <2>4, <2>5 DEF IInv, Mounted
<1>19. CASE ForecastStep
  <2>1. PICK e \in EngineSteps(engine) :
          LET answered == forecastState = "VERIFY" /\ e.commit = "done" IN
          /\ engine' = IF answered THEN Polled(e) ELSE e
          /\ fileResponse' = IF answered THEN [by |-> engine.upload, op |-> "COMMIT"]
                             ELSE fileResponse
          /\ forecastState' = IF ~answered THEN forecastState
                              ELSE IF e.ok THEN "COMPLETE" ELSE "CLEANUP"
    BY <1>19 DEF ForecastStep
  <2>2. /\ storage \in {"forecast", "forecastStep"} /\ storage' = "publish"
        /\ UNCHANGED <<files, fileState, fileOwner, session, fileRequest, debugVars>>
    BY <1>19 DEF ForecastStep
  <2>3. engine.commit # "idle" => engine.upload = "forecast" /\ forecastState = "VERIFY"
    BY <2>2 DEF IInv, TypeOK, Engine
  <2>4. /\ e \in Engine /\ Mounted(e)
        /\ engine.commit = "idle" => e.upload = engine.upload /\ e.commit = "idle"
        /\ engine.commit = "verifying" => \/ e.upload = engine.upload /\ e.commit = "verifying"
                                          \/ e.upload = "none" /\ e.commit = "done"
    BY <2>3, EngineStepsFacts DEF IInv, TypeOK
  <2>5. engine.commit \in {"idle", "verifying"}
    BY DEF IInv, TypeOK, Engine
  <2>6. CASE forecastState = "VERIFY" /\ e.commit = "done"
    BY <2>1, <2>2, <2>3, <2>4, <2>5, <2>6, PolledFacts DEF IInv, Mounted
  <2>7. CASE ~(forecastState = "VERIFY" /\ e.commit = "done")
    BY <2>1, <2>2, <2>3, <2>4, <2>5, <2>7 DEF IInv
  <2> QED BY <2>6, <2>7
<1>20. CASE RunSelftest
  BY <1>20 DEF IInv, RunSelftest
<1>21. CASE RunRequest
  <2>1. /\ storage = "execute" /\ storage' = "step" /\ fileRequest.op # "SELFTEST"
        /\ fileResponse' = fileRequest
        /\ UNCHANGED <<files, fileOwner, session, fileRequest, debugVars>>
    BY <1>21 DEF RunRequest
  <2>2. /\ fileRequest = [by |-> "file", op |-> dreq] /\ fileState = "RUNNING"
        /\ fileOwner = "MAINTENANCE" /\ engine.commit = "idle"
        /\ dreq \in EngineOps /\ engine.upload # "forecast"
    BY <2>1 DEF IInv, TypeOK, Engine, FileOps
  <2>3. PICK r \in Execute(engine, dreq, "file") :
          /\ engine' = r.engine
          /\ fileState' = IF r.deferred THEN fileState ELSE "COMPLETE"
          /\ forecastState' \in IF dreq = "FORMAT" /\ r.ok THEN {"IDLE"} ELSE {forecastState}
    BY <1>21, <2>2 DEF RunRequest
  <2>4. CallFacts(engine, dreq, "file", r)
    BY <2>2, <2>3, ExecuteFacts DEF IInv, TypeOK, Users
  <2>5. engine.upload \in {"none", "file"}
    BY <2>2 DEF IInv, TypeOK, Engine, Users
  <2>6. CASE r.deferred
    BY <2>1, <2>2, <2>3, <2>4, <2>5, <2>6 DEF IInv, CallFacts
  <2>7. CASE ~r.deferred
    <3>1. Mounted(engine)
      BY DEF IInv
    <3>2. /\ Mounted(engine') /\ engine'.commit = "idle"
          /\ engine'.upload = "file" => engine.upload = "file" \/ dreq = "BEGIN"
          /\ engine'.upload # "forecast"
          /\ dreq = "CANCEL" => engine'.upload = "none"
      BY <2>2, <2>3, <2>4, <2>5, <2>7, <3>1 DEF CallFacts
    <3>3. fileState' = "COMPLETE" /\ forecastState' \in {"IDLE", forecastState}
      BY <2>3, <2>7
    <3>4. OneOwner' /\ AnswerIsOwn' /\ SessionInv' /\ TurnInv'
      BY <2>1, <2>2, <3>3 DEF IInv
    <3>5. dmode \in {"console", "text", "binary", "closing", "cancelling"}
      BY DEF IInv, TypeOK
    <3>6. engine'.upload = "file" => dmode' \in {"binary", "closing"}
      BY <2>1, <2>2, <3>2, <3>5 DEF IInv
    <3>7. UploadOwned' /\ UploadInv'
      BY <2>1, <2>2, <3>2, <3>3, <3>6 DEF IInv
    <3> QED BY <3>4, <3>7
  <2> QED BY <2>6, <2>7
<1>22. CASE StepEngine
  <2>1. PICK e \in EngineSteps(engine) :
          LET answered == fileState = "RUNNING" /\ e.commit = "done" IN
          /\ engine' = IF answered THEN Polled(e) ELSE e
          /\ fileState' = IF answered THEN "COMPLETE" ELSE fileState
          /\ fileResponse' = IF answered THEN [by |-> engine.upload, op |-> "COMMIT"]
                             ELSE fileResponse
    BY <1>22 DEF StepEngine
  <2>2. /\ storage = "step" /\ storage' = "publish"
        /\ UNCHANGED <<files, fileOwner, session, fileRequest, forecastState, debugVars>>
    BY <1>22 DEF StepEngine
  <2>3. engine.commit # "idle" => engine.upload = "file" /\ fileState = "RUNNING" /\ dreq = "COMMIT"
    BY <2>2 DEF IInv, TypeOK, Engine
  <2>4. /\ e \in Engine /\ Mounted(e)
        /\ engine.commit = "idle" => e.upload = engine.upload /\ e.commit = "idle"
        /\ engine.commit = "verifying" => \/ e.upload = engine.upload /\ e.commit = "verifying"
                                          \/ e.upload = "none" /\ e.commit = "done"
    BY <2>3, EngineStepsFacts DEF IInv, TypeOK
  <2>5. engine.commit \in {"idle", "verifying"}
    BY DEF IInv, TypeOK, Engine
  <2>6. CASE fileState = "RUNNING" /\ e.commit = "done"
    BY <2>1, <2>2, <2>3, <2>4, <2>5, <2>6, PolledFacts DEF IInv, Mounted
  <2>7. CASE ~(fileState = "RUNNING" /\ e.commit = "done")
    BY <2>1, <2>2, <2>3, <2>4, <2>5, <2>7 DEF IInv
  <2> QED BY <2>6, <2>7
<1>23. CASE Publish
  BY <1>23 DEF IInv, Publish
<1>24. CASE SendWake
  BY <1>24 DEF IInv, SendWake
<1>25. CASE TextSubmit
  BY <1>25 DEF IInv, TextSubmit, FileRequest
<1>26. CASE AnswerBinary
  BY <1>26 DEF IInv, AnswerBinary
<1>27. CASE ContinueListing
  BY <1>27 DEF IInv, ContinueListing, FileRequest
<1>28. CASE LeaveSession
  BY <1>28 DEF IInv, LeaveSession, Release
<1>29. CASE SendConfig
  BY <1>29 DEF IInv, SendConfig
<1>30. CASE PauseScan
  BY <1>30 DEF IInv, PauseScan
<1>31. CASE EnterBinary
  BY <1>31 DEF IInv, EnterBinary, EnterSession, Acquire, AtLoop
<1>32. CASE TextCommand
  BY <1>32 DEF IInv, TextCommand, EnterSession, Acquire, AtLoop
<1>33. CASE BinarySubmit
  BY <1>33, PeerOpsAssumption DEF IInv, BinarySubmit, FileRequest, AtLoop, FileOps, EngineOps
<1>34. CASE CloseBinary
  BY <1>34 DEF IInv, CloseBinary, AtLoop
<1>35. CASE CancelUpload
  BY <1>35 DEF IInv, CancelUpload, FileRequest, AtLoop
<1>36. CASE TakeFileResult
  BY <1>36 DEF IInv, TakeFileResult, AtLoop
<1>37. CASE RequestForecast
  BY <1>37 DEF IInv, RequestForecast, AtLoop, ForecastRunning
<1>38. CASE TakeForecastResult
  BY <1>38 DEF IInv, TakeForecastResult, AtLoop
<1>39. CASE RequestFormat
  BY <1>39 DEF IInv, RequestFormat, AtLoop
<1>40. CASE PollConfig
  BY <1>40 DEF IInv, PollConfig
<1>41. CASE SetMode
  BY <1>41 DEF IInv, SetMode, AtLoop
<1>42. CASE UNCHANGED vars
  BY <1>42 DEF IInv
<1> QED
  BY <1>1, <1>2, <1>3, <1>4, <1>5, <1>6, <1>7, <1>8, <1>9, <1>10, <1>11, <1>12, <1>13,
     <1>14, <1>15, <1>16, <1>17, <1>18, <1>19, <1>20, <1>21, <1>22, <1>23, <1>24, <1>25,
     <1>26, <1>27, <1>28, <1>29, <1>30, <1>31, <1>32, <1>33, <1>34, <1>35, <1>36, <1>37,
     <1>38, <1>39, <1>40, <1>41, <1>42
  DEF Next, StorageTask, DebugTask, DebugContinues

LEMMA Inductive == Spec => []IInv
<1>1. Init => IInv
  BY InitType, InitOwned DEF IInv
<1>2. IInv /\ [Next]_vars => IInv'
  BY NextType, NextOwned DEF IInv
<1> QED BY <1>1, <1>2, PTL DEF Spec

(* The mailbox has one owner: no interleaving of the two tasks' critical    *)
(* sections accepts, runs or retains a request under another's lock         *)
(* (s_file_owner, s_maintenance_session and the two state machines).        *)
THEOREM OwnershipSafe == Spec => []OneOwner
<1>1. IInv => OneOwner
  BY DEF IInv, Owned
<1> QED BY <1>1, Inductive, PTL

(* No upload outlives the ownership of the client that began it, however    *)
(* the calls into littlefs fail (s_abort_upload and the two cleanups).      *)
THEOREM UploadSafe == Spec => []UploadOwned
<1>1. IInv => UploadOwned
  BY DEF IInv, Owned
<1> QED BY <1>1, Inductive, PTL

(* A retained answer always belongs to the request debugTask waits for,     *)
(* although both clients share the request and response buffers.            *)
THEOREM AnswerSafe == Spec => []AnswerIsOwn
<1>1. IInv => AnswerIsOwn
  BY DEF IInv, Owned
<1> QED BY <1>1, Inductive, PTL

=============================================================================
