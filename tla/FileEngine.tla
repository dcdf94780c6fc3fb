------------------------------- MODULE FileEngine -------------------------------
(***************************************************************************)
(* The file engine (middleware/file_store.c) as storage.c sees it: the     *)
(* mount state, the single upload, and the commit that is verified in      *)
(* chunks and answered by a later poll.  Each operator returns the set of  *)
(* outcomes one call may have; littlefs and the flash chip decide which.   *)
(*                                                                         *)
(* File contents and paths are left out.  `upload' also says which client  *)
(* began the upload: the code keeps one flag, the owner is a history value *)
(* that the ownership properties of Storage are about.                     *)
(***************************************************************************)
EXTENDS Naturals

CONSTANT MaxChunks    \* bound: chunks of a blank check or of a verification

ASSUME MaxChunksAssumption == MaxChunks \in Nat

EngineStates == {"UNAVAILABLE", "INITIALIZING", "UNFORMATTED", "READY", "ERROR"}
Users == {"file", "forecast"}

(* STAT, READ, LIST, MKDIR, REMOVE and RENAME leave an upload alone: SIMPLE. *)
EngineOps == {"SIMPLE", "BEGIN", "WRITE", "COMMIT", "CANCEL", "FORMAT"}

Engine == [state : EngineStates, upload : Users \cup {"none"},
           commit : {"idle", "verifying", "done"}, ok : BOOLEAN,
           left : 0..MaxChunks]

Fresh(state, left) ==
  [state |-> state, upload |-> "none", commit |-> "idle", ok |-> TRUE, left |-> left]

(* file_store_init: no device, a mount (whose temporary-file cleanup may    *)
(* fail), or a partition that is not littlefs and must be read to the end.  *)
InitEngines(online) ==
  IF online THEN {Fresh("READY", 0), Fresh("ERROR", 0), Fresh("INITIALIZING", MaxChunks)}
            ELSE {Fresh("UNAVAILABLE", 0)}

Reply == [engine : Engine, ok : BOOLEAN, deferred : BOOLEAN]

Answer(e, ok) == [engine |-> e, ok |-> ok, deferred |-> FALSE]

(* s_record_fault: an IO or corruption error stops the mount.               *)
Faulted(e) == [e EXCEPT !.state = "ERROR"]
MaybeFaulted(e) == {e, Faulted(e)}

(* Mutant of Aborted: an abort in error keeps the upload.                   *)
AbortedUnlessError(e) ==
  IF e.state = "ERROR" THEN {Answer(e, FALSE)}
  ELSE {Answer(b, ok) : b \in MaybeFaulted([e EXCEPT !.upload = "none", !.commit = "idle"]),
                        ok \in BOOLEAN}

(* s_abort_upload: the upload ends in RAM whatever the cleanup returns, and *)
(* once the mount has failed the abort only reports that failure.           *)
Aborted(e) ==
  LET a == [e EXCEPT !.upload = "none", !.commit = "idle"]
  IN  IF e.state = "ERROR" THEN {Answer(a, FALSE)}
      ELSE {Answer(b, ok) : b \in MaybeFaulted(a), ok \in BOOLEAN}

AbortedInError(e) == {Answer(r.engine, FALSE) : r \in Aborted(e)}

Refused(e) == {Answer(e, FALSE)}

(* s_format rebuilds the mount; it needs a device and no upload.            *)
Format(e) ==
  IF e.upload # "none" \/ e.state \in {"UNAVAILABLE", "INITIALIZING"} THEN Refused(e)
  ELSE {Answer([e EXCEPT !.state = "READY"], TRUE), Answer(Faulted(e), FALSE)}

Cancel(e) == IF e.state \in {"READY", "ERROR"} THEN Aborted(e) ELSE Refused(e)

(* A success may still leave the mount in error: the usage count that       *)
(* follows it records its own fault and does not change the answer.         *)
Begin(e, user) ==
  IF e.upload # "none" THEN Refused(e)
  ELSE {Answer(f, TRUE) : f \in MaybeFaulted([e EXCEPT !.upload = user])}
         \cup {Answer(f, FALSE) : f \in MaybeFaulted(e)}

Write(e) ==
  IF e.upload = "none" THEN Refused(e)
  ELSE {Answer(e, TRUE)} \cup Refused(e) \cup AbortedInError(e) \cup AbortedInError(Faulted(e))

(* s_start_commit closes the writer and leaves the answer to file_store_poll. *)
Commit(e) ==
  IF e.upload = "none" THEN Refused(e)
  ELSE {[engine |-> [e EXCEPT !.commit = "verifying", !.left = n],
         ok |-> TRUE, deferred |-> TRUE] : n \in 0..MaxChunks}
         \cup Refused(e) \cup AbortedInError(e) \cup AbortedInError(Faulted(e))

Simple(e) == {Answer(f, ok) : f \in MaybeFaulted(e), ok \in BOOLEAN}

(* Reading the forecast file back: only an IO or corruption error can fail it. *)
Read(e) ==
  IF e.commit # "idle" \/ e.state # "READY" THEN Refused(e)
  ELSE {Answer(e, TRUE), Answer(Faulted(e), FALSE)}

(* file_store_execute *)
Execute(e, op, user) ==
  IF e.commit # "idle" THEN Refused(e)
  ELSE CASE op = "FORMAT" -> Format(e)
         [] op = "CANCEL" -> Cancel(e)
         [] op \notin {"FORMAT", "CANCEL"} /\ e.state # "READY" -> Refused(e)
         [] op = "BEGIN"  /\ e.state = "READY" -> Begin(e, user)
         [] op = "WRITE"  /\ e.state = "READY" -> Write(e)
         [] op = "COMMIT" /\ e.state = "READY" -> Commit(e)
         [] op = "SIMPLE" /\ e.state = "READY" -> Simple(e)

(* s_blank_step: one page of the partition; only an all-blank one is UNFORMATTED. *)
BlankSteps(e) ==
  {[e EXCEPT !.state = "ERROR", !.left = 0]}
    \cup (IF e.left = 0 THEN {[e EXCEPT !.state = "UNFORMATTED"]}
                        ELSE {[e EXCEPT !.left = e.left - 1]})

(* s_complete_commit: the rename publishes and ends the upload, or the       *)
(* upload is aborted; either way the answer waits for file_store_poll.       *)
Ended(e, ok) == [e EXCEPT !.upload = "none", !.commit = "done", !.ok = ok, !.left = 0]
Completed(e) == {Ended(f, ok) : f \in MaybeFaulted(e), ok \in BOOLEAN}

(* Mutants of VerifySteps: the remaining length runs past zero; the last    *)
(* chunk does not complete the commit.                                      *)
VerifyPastEnd(e) == {[e EXCEPT !.left = e.left - 1]} \cup {f \in Completed(e) : ~f.ok}
VerifyStalled(e) == IF e.left = 0 THEN {e} ELSE {[e EXCEPT !.left = e.left - 1]}

VerifySteps(e) ==
  IF e.left = 0 THEN Completed(e)
  ELSE {[e EXCEPT !.left = e.left - 1]} \cup {f \in Completed(e) : ~f.ok}

(* file_store_step *)
EngineSteps(e) ==
  CASE e.state = "INITIALIZING" -> BlankSteps(e)
    [] e.state # "INITIALIZING" /\ e.commit = "verifying" -> VerifySteps(e)
    [] OTHER -> {e}

(* file_store_poll hands the answer over once.                               *)
Polled(e) == [e EXCEPT !.commit = "idle", !.ok = TRUE]

=============================================================================
