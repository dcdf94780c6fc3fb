------------------------------ MODULE FileTransfer ------------------------------
(***************************************************************************)
(* The DCFS binary protocol of app/file_transfer.c with its host client,   *)
(* the Client of tools/file_store_cli.py, over the serial line, down to    *)
(* the file on flash.                                                      *)
(*                                                                         *)
(* Four actors: the host program, one invocation per session number; the   *)
(* line, which loses frames (a damaged one fails its CRC and is dropped);  *)
(* debugTask, which feeds whole frames to s_process and calls              *)
(* file_transfer_poll; and storageTask, which serves the one-place mailbox *)
(* of app/storage.c.  Power may be cut between any two steps.  The clock   *)
(* is left out: a time-out may expire whenever the code tests it.          *)
(*                                                                         *)
(* Who may use the storage at all, the forecast or this client, is the     *)
(* subject of Storage: here storage_maintenance_acquire may say no.        *)
(***************************************************************************)
EXTENDS FileStore

CONSTANTS
  Uploads,      \* contents a host may send
  Spoiled,      \* a chunk read from a source that changed after its checksum
  Sessions,     \* bound: number of invocations of the host program
  Entries,      \* bound: entries a text FS LIST prints
  LineMax,      \* bound: frames on the line in one direction
  Cuts          \* bound: power cuts

ASSUME UploadsAssumption == Uploads \subseteq Content /\ Spoiled \in Chunks
ASSUME BoundsAssumption ==
  Sessions \in Nat /\ Entries \in Nat /\ LineMax \in Nat /\ Cuts \in Nat

VARIABLES
  host,         \* the running invocation and its outstanding exchange
  job,          \* what it was started for
  toDevice, toHost,   \* the two directions of the line
  ft,           \* the scalars of file_transfer.c
  pendingFrame, \* s_pending_frame
  lastRequest, lastResponse,  \* the cached final answer
  slot,         \* s_file_state, s_file_request and s_file_response of storage.c
  store, disk,  \* file_store.c and the flash
  cuts,         \* power cuts so far
  executed,     \* history: requests the store completed and how
  ask           \* history: the mutation last asked for, see AtomicFile

hostVars   == <<host, job>>
lineVars   == <<toDevice, toHost>>
deviceVars == <<ft, pendingFrame, lastRequest, lastResponse>>
storeVars  == <<slot, store, disk, executed>>

vars == <<hostVars, lineVars, deviceVars, storeVars, cuts, ask>>

-----------------------------------------------------------------------------
(* Frames *)

StoreOps == {"BEGIN", "WRITE", "COMMIT", "CANCEL", "REMOVE", "LIST"}
(* REFUSED: a request s_decode or storage_file_request turns down, such as one *)
(* on the path of the forecast.  TEXT and ENTER are lines of the text console. *)
Ops == StoreOps \cup {"HELLO", "STATUS", "REFUSED", "EXIT", "ENTER", "TEXT", "none"}

Request(op, session, sequence, at, data) ==
  [op |-> op, session |-> session, sequence |-> sequence, at |-> at, data |-> data]
Answer(f, final, ok) ==
  [op |-> f.op, session |-> f.session, sequence |-> f.sequence, final |-> final, ok |-> ok]

NoFrame == Request("none", 0, 0, 0, <<>>)
NoAnswer == Answer(NoFrame, FALSE, FALSE)

Data == Content \cup Chunks
Frames == [op : Ops, session : Nat, sequence : Nat, at : Nat, data : Data]
Responses == [op : Ops, session : Nat, sequence : Nat, final : BOOLEAN, ok : BOOLEAN]

Final(f, ok) == Answer(f, TRUE, ok)
Busy(f)      == Answer(f, FALSE, FALSE)

(* A frame that does not fit is one more lost frame. *)
Sent(line, frame) == IF Len(line) < LineMax THEN Append(line, frame) ELSE line

-----------------------------------------------------------------------------
(* file_transfer.c *)

FtOff == [active |-> "off", session |-> 0, sequence |-> 1, pending |-> FALSE,
          binary |-> FALSE, cleanup |-> 0, exit |-> FALSE, listing |-> 0]

SlotIdle == [state |-> "IDLE", request |-> NoFrame, from |-> "none", ok |-> FALSE]

Jobs == [kind : {"upload"}, content : Uploads]
          \cup [kind : {"remove", "refused", "status"}, content : {<<>>}]

NoAsk == [target |-> Absent, told |-> "none", applied |-> FALSE]
NoJob == [kind |-> "status", content |-> <<>>]

Client == [phase : {"rest", "enter", "wait"}, session : 0..Sessions, frame : Frames]
Transfer == [active : {"off", "on", "linger"}, session : 0..Sessions, sequence : Nat,
             pending : BOOLEAN, binary : BOOLEAN, cleanup : 0..2, exit : BOOLEAN,
             listing : 0..Entries]
Mailbox == [state : {"IDLE", "PENDING", "RUNNING", "COMPLETE"}, request : Frames,
            from : {"none", "host", "cleanup", "text"}, ok : BOOLEAN]
Question == [target : Files, told : {"none", "waiting", "ok", "error", "unknown"},
             applied : BOOLEAN]

TypeOK ==
  /\ host \in Client /\ job \in Jobs
  /\ toDevice \in Seq(Frames) /\ toHost \in Seq(Responses)
  /\ ft \in Transfer
  /\ pendingFrame \in Frames /\ lastRequest \in Frames /\ lastResponse \in Responses
  /\ slot \in Mailbox
  /\ store \in Store /\ disk \in Disk
  /\ cuts \in 0..Cuts
  /\ executed \subseteq Responses
  /\ ask \in Question

Init ==
  /\ host = [phase |-> "rest", session |-> 0, frame |-> NoFrame]
  /\ job = NoJob
  /\ toDevice = <<>> /\ toHost = <<>>
  /\ ft = FtOff
  /\ pendingFrame = NoFrame /\ lastRequest = NoFrame /\ lastResponse = NoAnswer
  /\ slot = SlotIdle
  /\ \E file \in {Absent} \cup Uploads, temp \in {Absent, <<>>} :
       \E o \in Remount([file |-> file, temp |-> temp]) : store = o.store /\ disk = o.disk
  /\ cuts = 0 /\ executed = {}
  /\ ask = NoAsk

-----------------------------------------------------------------------------
(* debugTask: one line or frame from the receive ring *)

(* Nobody hears the answer when the host program has closed the port. *)
Reply(answer) == toHost' = IF host.phase = "rest" THEN toHost ELSE Sent(toHost, answer)

FtBusy == ft.pending \/ ft.cleanup # 0   \* file_transfer_busy

(* Outside a session the cache and the sequence number are not looked at, and *)
(* s_enter clears them: the model clears them when a session ends as well.    *)
Forget == /\ pendingFrame' = NoFrame
          /\ lastRequest' = NoFrame /\ lastResponse' = NoAnswer

(* FS TRANSFER: s_enter, once the maintenance lock is granted. *)
Enter(f) ==
  /\ ft.active = "off" /\ ~FtBusy /\ f.op = "ENTER"
  /\ Reply(Final(f, TRUE))
  /\ ft' = [FtOff EXCEPT !.active = "on"]
  /\ Forget
  /\ UNCHANGED <<hostVars, storeVars, cuts, ask>>

(* A one-shot FS command: FS REMOVE, or FS LIST that asks entry by entry. *)
TextCommand(f) ==
  /\ ft.active = "off" /\ ~FtBusy /\ f.op = "TEXT"
  /\ \E n \in 0..Entries :
       ft' = [ft EXCEPT !.pending = TRUE, !.binary = FALSE,
                        !.listing = IF f.at = 0 THEN 0 ELSE n]
  /\ slot' = [state |-> "PENDING", from |-> "text", ok |-> FALSE,
              request |-> [NoFrame EXCEPT !.op = IF f.at = 0 THEN "REMOVE" ELSE "LIST"]]
  /\ UNCHANGED <<hostVars, toHost, pendingFrame, lastRequest, lastResponse,
                 store, disk, executed, cuts, ask>>

(* ERR BUSY, a lock that is not granted, or binary noise to the text console. *)
ConsoleRefuses(f) ==
  /\ ft.active = "off"
  /\ UNCHANGED <<hostVars, toHost, deviceVars, storeVars, cuts, ask>>

(* s_process.  Hello binds the session that the host chose. *)
Hello(f) ==
  /\ ft.active # "off" /\ ft.session = 0 /\ f.op = "HELLO" /\ f.sequence = 0
  /\ ft' = [ft EXCEPT !.session = f.session, !.sequence = 1]
  /\ lastRequest' = f /\ lastResponse' = Final(f, TRUE)
  /\ Reply(Final(f, TRUE))
  /\ UNCHANGED <<hostVars, pendingFrame, storeVars, cuts, ask>>

Ours(f) == ft.active # "off" /\ ft.session # 0 /\ f.session = ft.session

Repeats(f) == Ours(f) /\ f = lastRequest

(* Text, a frame of another session or one before HELLO, and a new request *)
(* in the grace period after EXIT.                                         *)
Ignore(f) ==
  /\ ft.active # "off"
  /\ \/ ft.session = 0 /\ f.op # "HELLO"
     \/ ft.session # 0 /\ ~Ours(f)
     \/ Ours(f) /\ ~Repeats(f) /\ ft.active = "linger"
  /\ UNCHANGED <<hostVars, toHost, deviceVars, storeVars, cuts, ask>>

(* The frame answered last: its answer is sent again from the cache. *)
AnswerAgain(f) ==
  /\ Repeats(f)
  /\ Reply(lastResponse)
  /\ UNCHANGED <<hostVars, deviceVars, storeVars, cuts, ask>>

New(f) == Ours(f) /\ ~Repeats(f) /\ ft.active = "on"

(* A request is being executed, the session is being cleaned up, or the frame *)
(* has another number than the next one.  The last needs a host that is not   *)
(* stop-and-wait, and its answer is not cached.                               *)
TurnAway(f) ==
  /\ New(f) /\ (FtBusy \/ f.sequence # ft.sequence)
  /\ Reply(IF FtBusy THEN Busy(f) ELSE Final(f, FALSE))
  /\ UNCHANGED <<hostVars, deviceVars, storeVars, cuts, ask>>

InTurn(f) == New(f) /\ ~FtBusy /\ f.sequence = ft.sequence

(* STATUS, and a request that is turned down before it reaches the store: *)
(* answered, cached and counted at once.                                  *)
AnswerAtOnce(f) ==
  /\ InTurn(f) /\ f.op \in {"STATUS", "REFUSED"}
  /\ \E ok \in BOOLEAN :
       /\ f.op = "REFUSED" => ~ok
       /\ lastResponse' = Final(f, ok) /\ Reply(Final(f, ok))
  /\ pendingFrame' = f /\ lastRequest' = f
  /\ ft' = [ft EXCEPT !.binary = TRUE, !.sequence = @ + 1]
  /\ UNCHANGED <<hostVars, storeVars, cuts, ask>>

Exit(f) ==
  /\ InTurn(f) /\ f.op = "EXIT"
  /\ pendingFrame' = f
  /\ ft' = [ft EXCEPT !.binary = TRUE, !.cleanup = 1, !.exit = TRUE]
  /\ UNCHANGED <<hostVars, toHost, lastRequest, lastResponse, storeVars, cuts, ask>>

(* s_submit: the mailbox is free whenever no request is pending, but the code *)
(* lets a full one answer BUSY and leaves the repetition to the host.         *)
Submit(f) ==
  /\ InTurn(f) /\ f.op \in StoreOps
  /\ pendingFrame' = f
  /\ ft' = [ft EXCEPT !.binary = TRUE, !.pending = slot.state = "IDLE"]
  /\ slot' = IF slot.state = "IDLE"
             THEN [state |-> "PENDING", request |-> f, from |-> "host", ok |-> FALSE]
             ELSE slot
  /\ Reply(Busy(f))
  /\ UNCHANGED <<hostVars, lastRequest, lastResponse, store, disk, executed, cuts, ask>>

-----------------------------------------------------------------------------
(* debugTask: file_transfer_poll *)

TakeResult == ft.pending /\ slot.state = "COMPLETE" /\ slot' = SlotIdle

(* Mutant of CompleteBinary: the sequence number does not advance. *)
CompleteBinaryKeepingSequence ==
  /\ TakeResult /\ ft.cleanup # 2 /\ ft.binary
  /\ ft' = [ft EXCEPT !.pending = FALSE]
  /\ lastResponse' = Final(pendingFrame, slot.ok) /\ lastRequest' = NoFrame
  /\ Reply(lastResponse')
  /\ UNCHANGED <<hostVars, toDevice, pendingFrame, store, disk, executed, cuts, ask>>

(* s_complete_binary *)
CompleteBinary ==
  /\ TakeResult /\ ft.cleanup # 2 /\ ft.binary
  /\ ft' = [ft EXCEPT !.pending = FALSE, !.sequence = @ + 1]
  /\ lastRequest' = pendingFrame /\ lastResponse' = Final(pendingFrame, slot.ok)
  /\ Reply(lastResponse')
  /\ UNCHANGED <<hostVars, toDevice, pendingFrame, store, disk, executed, cuts, ask>>

(* Mutant of CompleteText: one entry too many. *)
CompleteTextPastEnd ==
  /\ ft.pending /\ slot.state = "COMPLETE" /\ ~ft.binary
  /\ IF slot.ok
     THEN /\ slot' = [slot EXCEPT !.state = "PENDING", !.ok = FALSE]
          /\ ft' = [ft EXCEPT !.listing = @ - 1]
     ELSE /\ slot' = SlotIdle
          /\ ft' = [ft EXCEPT !.pending = FALSE, !.listing = 0]
  /\ UNCHANGED <<hostVars, lineVars, pendingFrame, lastRequest, lastResponse,
                 store, disk, executed, cuts, ask>>

(* s_complete_text: the next entry of a listing, or the end of the command. *)
CompleteText ==
  /\ ft.pending /\ slot.state = "COMPLETE" /\ ~ft.binary
  /\ IF slot.ok /\ ft.listing > 0
     THEN /\ slot' = [slot EXCEPT !.state = "PENDING", !.ok = FALSE]
          /\ ft' = [ft EXCEPT !.listing = @ - 1]
     ELSE /\ slot' = SlotIdle
          /\ ft' = [ft EXCEPT !.pending = FALSE, !.listing = 0]
  /\ UNCHANGED <<hostVars, lineVars, pendingFrame, lastRequest, lastResponse,
                 store, disk, executed, cuts, ask>>

(* Mutant of FinishCleanup: a session that timed out stays active. *)
FinishCleanupStaysOn ==
  /\ TakeResult /\ ft.cleanup = 2
  /\ IF ft.exit
     THEN /\ ft' = [ft EXCEPT !.pending = FALSE, !.binary = FALSE, !.cleanup = 0, !.exit = FALSE,
                              !.sequence = @ + 1, !.active = "linger"]
          /\ lastRequest' = pendingFrame /\ lastResponse' = Final(pendingFrame, slot.ok)
          /\ Reply(lastResponse')
          /\ UNCHANGED pendingFrame
     ELSE ft' = [FtOff EXCEPT !.active = "on"] /\ Forget /\ UNCHANGED toHost
  /\ UNCHANGED <<hostVars, toDevice, store, disk, executed, cuts, ask>>

(* s_finish_cleanup: EXIT is answered and may be repeated for a while, a *)
(* session that timed out just ends.                                     *)
FinishCleanup ==
  /\ TakeResult /\ ft.cleanup = 2
  /\ IF ft.exit
     THEN /\ ft' = [ft EXCEPT !.pending = FALSE, !.binary = FALSE, !.cleanup = 0, !.exit = FALSE,
                              !.sequence = @ + 1, !.active = "linger"]
          /\ lastRequest' = pendingFrame /\ lastResponse' = Final(pendingFrame, slot.ok)
          /\ Reply(lastResponse')
          /\ UNCHANGED pendingFrame
     ELSE ft' = FtOff /\ Forget /\ UNCHANGED toHost
  /\ UNCHANGED <<hostVars, toDevice, store, disk, executed, cuts, ask>>

(* Mutant of Progress: the flags are those of a final answer. *)
ProgressFinal ==
  /\ ft.pending /\ slot.state # "COMPLETE" /\ ft.binary
  /\ Reply(Final(pendingFrame, TRUE))
  /\ UNCHANGED <<hostVars, toDevice, deviceVars, storeVars, cuts, ask>>

(* The BUSY sent every second while a request is being executed. *)
Progress ==
  /\ ft.pending /\ slot.state # "COMPLETE" /\ ft.binary
  /\ Reply(Busy(IF ft.cleanup = 2 THEN [pendingFrame EXCEPT !.op = "EXIT"] ELSE pendingFrame))
  /\ UNCHANGED <<hostVars, toDevice, deviceVars, storeVars, cuts, ask>>

LingerExpires ==
  /\ ft.active = "linger"
  /\ ft' = FtOff /\ Forget
  /\ UNCHANGED <<hostVars, lineVars, storeVars, cuts, ask>>

(* Mutant of StartCleanup: a session that timed out is closed at once. *)
CloseAtOnce ==
  /\ ft.active = "on" /\ ~ft.pending
  /\ ft' = FtOff /\ Forget
  /\ UNCHANGED <<hostVars, lineVars, storeVars, cuts, ask>>

(* After EXIT (cleanup is 1) or FT_IDLE_MS without a frame, the upload that   *)
(* may be open is cancelled through the mailbox.                              *)
StartCleanup ==
  /\ ft.active = "on" /\ ~ft.pending /\ slot.state = "IDLE"
  /\ ft' = [ft EXCEPT !.cleanup = 2, !.binary = TRUE, !.pending = TRUE]
  /\ slot' = [state |-> "PENDING", from |-> "cleanup", ok |-> FALSE,
              request |-> [NoFrame EXCEPT !.op = "CANCEL"]]
  /\ UNCHANGED <<hostVars, lineVars, pendingFrame, lastRequest, lastResponse,
                 store, disk, executed, cuts, ask>>

-----------------------------------------------------------------------------
(* storageTask *)

(* One pass of s_files_process: execute, file_store_step, file_store_poll. *)
Pass ==
  IF slot.state = "RUNNING" THEN VerifyStep(store, disk)
  ELSE UNION {IF o.deferred THEN VerifyStep(o.store, o.disk) ELSE {o} :
                o \in Execute(store, disk, slot.request)}

StorageTask ==
  /\ slot.state \in {"PENDING", "RUNNING"}
  /\ \E o \in Pass :
       /\ store' = o.store /\ disk' = o.disk
       /\ slot' = [slot EXCEPT !.state = IF o.deferred THEN "RUNNING" ELSE "COMPLETE",
                               !.ok = o.ok]
       /\ executed' = IF slot.from = "host" /\ ~o.deferred
                      THEN executed \cup {Final(slot.request, o.ok)} ELSE executed
       /\ ask' = [ask EXCEPT !.applied = @ \/ (slot.from = "host" /\ o.effect)]
  /\ UNCHANGED <<hostVars, lineVars, deviceVars, cuts>>

(* StartStorageTask mounts again after an error when nobody uses the store. *)
MountAgain ==
  /\ ~store.ready /\ ~store.upload /\ slot.state = "IDLE" /\ ft.active # "on"
  /\ \E o \in Remount(disk) : store' = o.store /\ disk' = o.disk
  /\ UNCHANGED <<hostVars, lineVars, deviceVars, slot, executed, cuts, ask>>

(* The frames still in the receive ring go with the RAM. *)
PowerCut ==
  /\ cuts < Cuts /\ cuts' = cuts + 1
  /\ ft' = FtOff /\ Forget /\ slot' = SlotIdle /\ toDevice' = <<>>
  /\ \E o \in Remount(disk) : store' = o.store /\ disk' = o.disk
  /\ UNCHANGED <<hostVars, toHost, executed, ask>>

-----------------------------------------------------------------------------
(* The line and the host *)

Lose ==
  /\ \/ toDevice # <<>> /\ toDevice' = Tail(toDevice) /\ UNCHANGED toHost
     \/ toHost # <<>> /\ toHost' = Tail(toHost) /\ UNCHANGED toDevice
  /\ UNCHANGED <<hostVars, deviceVars, storeVars, cuts, ask>>

Mutations == {"COMMIT", "REMOVE"}

(* A person at the same terminal types an FS command: REMOVE (0) or LIST (1). *)
(* Bound: on a quiet line and outside a session, which would swallow it.      *)
Type ==
  /\ host.phase = "rest" /\ toDevice = <<>> /\ ft.active = "off"
  /\ \E at \in {0, 1} : toDevice' = Sent(toDevice, Request("TEXT", 0, 0, at, <<>>))
  /\ UNCHANGED <<hostVars, toHost, deviceVars, storeVars, cuts, ask>>

(* enter_transfer *)
Start(j) ==
  /\ host.phase = "rest" /\ host.session < Sessions
  /\ host' = [phase |-> "enter", session |-> host.session + 1, frame |-> NoFrame]
  /\ job' = j
  /\ toDevice' = Sent(toDevice, Request("ENTER", 0, 0, 0, <<>>))
  /\ executed' = {}
  /\ ask' = IF ask.told = "unknown" THEN ask ELSE NoAsk
  /\ UNCHANGED <<toHost, deviceVars, slot, store, disk, cuts>>

(* exchange: the next request, and with it the mutation the answer is about. *)
Exchange(op, sequence, at, data) ==
  LET f == Request(op, host.session, sequence, at, data)
  IN  /\ host' = [host EXCEPT !.phase = "wait", !.frame = f]
      /\ toDevice' = Sent(toDevice, f)

Entered ==
  /\ host.phase = "enter" /\ toHost # <<>> /\ Head(toHost).op = "ENTER"
  /\ toHost' = Tail(toHost)
  /\ Exchange("HELLO", 0, 0, <<>>)
  /\ UNCHANGED <<job, deviceVars, storeVars, cuts, ask>>

Awaited(m) == /\ m.op = host.frame.op
              /\ m.session = host.session
              /\ m.sequence = host.frame.sequence

(* What is not the awaited answer, or is a BUSY, only restarts the wait. *)
Skip ==
  /\ toHost # <<>>
  /\ \/ host.phase = "enter" /\ Head(toHost).op # "ENTER"
     \/ host.phase = "wait" /\ (~Awaited(Head(toHost)) \/ ~Head(toHost).final)
  /\ toHost' = Tail(toHost)
  /\ UNCHANGED <<hostVars, toDevice, deviceVars, storeVars, cuts, ask>>

(* The packet is sent again unchanged.  How often is left to GiveUp. *)
Retry ==
  /\ host.phase = "wait"
  /\ toDevice' = Sent(toDevice, host.frame)
  /\ UNCHANGED <<hostVars, toHost, deviceVars, storeVars, cuts, ask>>

(* The retries or the deadline are used up, or the user interrupts: the      *)
(* client refuses further requests and the program ends.                     *)
GiveUp ==
  /\ host.phase # "rest"
  /\ host' = [host EXCEPT !.phase = "rest", !.frame = NoFrame]
  /\ job' = NoJob /\ toHost' = <<>>
  /\ ask' = IF host.frame.op \in Mutations THEN [ask EXCEPT !.told = "unknown"] ELSE ask
  /\ UNCHANGED <<toDevice, deviceVars, storeVars, cuts>>

FirstOp == CASE job.kind = "upload"  -> "BEGIN"
             [] job.kind = "remove"  -> "REMOVE"
             [] job.kind = "refused" -> "REFUSED"
             [] job.kind = "status"  -> "STATUS"

(* run_command, upload and close: the request that follows an answer. *)
NextOp(f, ok) ==
  CASE f.op = "HELLO" -> FirstOp
    [] f.op = "BEGIN" /\ ok -> IF job.content = <<>> THEN "COMMIT" ELSE "WRITE"
    [] f.op = "WRITE" /\ ok -> IF f.at + 1 = Len(job.content) THEN "COMMIT" ELSE "WRITE"
    [] f.op \in {"WRITE", "COMMIT"} /\ ~ok -> "CANCEL"
    [] OTHER -> "EXIT"

Target(op) == IF op = "COMMIT" THEN job.content ELSE Absent

Answered ==
  /\ host.phase = "wait" /\ toHost # <<>>
  /\ LET m == Head(toHost)  f == host.frame  op == NextOp(f, m.ok)
         at == IF op = "WRITE" /\ f.op = "WRITE" THEN f.at + 1 ELSE 0
     IN  /\ Awaited(m) /\ m.final
         /\ IF f.op = "EXIT"
            THEN /\ host' = [host EXCEPT !.phase = "rest", !.frame = NoFrame]
                 /\ job' = NoJob /\ toHost' = <<>>
                 /\ UNCHANGED toDevice
            ELSE /\ toHost' = Tail(toHost)
                 /\ UNCHANGED job
                 /\ \E data \in CASE op = "WRITE" -> {job.content[at + 1], Spoiled}
                                 [] op = "BEGIN" -> {job.content}
                                 [] OTHER -> {<<>>} :
                      Exchange(op, f.sequence + 1, at, data)
         /\ ask' = IF f.op \in Mutations
                   THEN [ask EXCEPT !.told = IF m.ok THEN "ok" ELSE "error"]
                   ELSE IF op \in Mutations /\ f.op # "EXIT"
                        THEN [target |-> Target(op), told |-> "waiting", applied |-> FALSE]
                        ELSE ask
  /\ UNCHANGED <<deviceVars, storeVars, cuts>>

-----------------------------------------------------------------------------
Receive ==
  /\ toDevice # <<>> /\ toDevice' = Tail(toDevice)
  /\ LET f == Head(toDevice)
     IN  \/ Enter(f) \/ TextCommand(f) \/ ConsoleRefuses(f)
         \/ Hello(f) \/ Ignore(f) \/ AnswerAgain(f) \/ TurnAway(f)
         \/ AnswerAtOnce(f) \/ Exit(f) \/ Submit(f)

Poll ==
  \/ CompleteBinary \/ CompleteText \/ FinishCleanup \/ Progress \/ LingerExpires \/ StartCleanup

Host == Type \/ (\E j \in Jobs : Start(j)) \/ Entered \/ Skip \/ Retry \/ GiveUp \/ Answered

Next == Receive \/ Poll \/ StorageTask \/ MountAgain \/ PowerCut \/ Lose \/ Host

Spec == Init /\ [][Next]_vars

(* The scheduler runs both tasks, and debugTask polls at least once a second. *)
(* Silence of FT_IDLE_MS is certain only when no host is running.             *)
Progressing ==
  \/ StorageTask \/ CompleteBinary \/ CompleteText \/ FinishCleanup \/ LingerExpires
  \/ StartCleanup /\ (ft.cleanup = 1 \/ host.phase = "rest")

Fairness == WF_vars(Progressing)

FairSpec == Spec /\ Fairness

-----------------------------------------------------------------------------
(* Properties *)

Stored(session, sequence) ==
  \E m \in executed : m.session = session /\ m.sequence = sequence

(* A request reaches the store once: whatever frames are repeated, delayed or *)
(* lost, the one in the mailbox was not executed before.                      *)
ExecutedOnce ==
  slot.from = "host" /\ slot.state \in {"PENDING", "RUNNING"}
    => ~Stored(slot.request.session, slot.request.sequence)

(* A final answer on its way to the host, or in the cache to be repeated, is  *)
(* the result of that very request: never of an earlier one with the same     *)
(* number, nor a promise of something still to be done.                       *)
AnswerIsOwn ==
  \A m \in {toHost[i] : i \in DOMAIN toHost} \cup {lastResponse} :
    (m.op \in StoreOps /\ m.final /\ m.ok /\ m.session = host.session) => m \in executed

(* Outside a session nothing of it is left: no request in the mailbox and no  *)
(* upload that would keep the device awake and the store refusing.            *)
NothingLeftOpen ==
  ft.active # "on" /\ ~ft.pending => slot.state = "IDLE" /\ ~store.upload

(* COMMIT and REMOVE are atomic for the host, across loss and power cuts.     *)
Atomic == INSTANCE AtomicFile
            WITH Files <- {Absent} \cup Uploads,
                 file <- disk.file, target <- ask.target, told <- ask.told, applied <- ask.applied
ImplementsAtomicFile == Atomic!Spec

(* A session whose host is gone is closed, whatever it left half done.        *)
AbandonedSessionEnds ==
  host.phase = "rest" /\ ft.active # "off"
    ~> host.phase # "rest" \/ (ft.active = "off" /\ ~store.upload)

===============================================================================
