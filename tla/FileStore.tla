------------------------------- MODULE FileStore -------------------------------
(***************************************************************************)
(* middleware/file_store.c with the contents of one file and of the upload *)
(* temporary, on a flash that keeps them across power cuts.  FileEngine is *)
(* the same component as storage.c schedules it; here the data matters and *)
(* the mount is either READY or in ERROR.                                  *)
(*                                                                         *)
(* A file is the sequence of the chunks one WRITE carries.  A CRC-32 is    *)
(* represented by the content it was computed from.  Each operator returns *)
(* the set of outcomes of one call: littlefs and the flash chip may fail   *)
(* any of its steps, with an IO error (the mount goes to ERROR) or without.*)
(***************************************************************************)
EXTENDS Naturals, Sequences

CONSTANTS Chunks, Absent

Content == Seq(Chunks)

ASSUME AbsentAssumption == Absent \notin Content

Files == {Absent} \cup Content

Disk == [file : Files, temp : Files]

(* declared is s_upload_size and s_upload_crc, written what s_writer holds. *)
Store == [ready : BOOLEAN, upload : BOOLEAN, committing : BOOLEAN,
          declared : Content, written : Content, verified : Nat]

(* effect: the call changed the file; deferred: the answer comes from a later step *)
Outcome(s, d, ok, effect) ==
  [store |-> s, disk |-> d, ok |-> ok, effect |-> effect, deferred |-> FALSE]
Deferred(s, d) ==
  [store |-> s, disk |-> d, ok |-> TRUE, effect |-> FALSE, deferred |-> TRUE]

Refuse(s, d) == {Outcome(s, d, FALSE, FALSE)}

Mounted == [ready |-> TRUE, upload |-> FALSE, committing |-> FALSE,
            declared |-> <<>>, written |-> <<>>, verified |-> 0]

(* s_record_fault *)
Faulted(s) == [s EXCEPT !.ready = FALSE]
MaybeFaulted(s) == {s, Faulted(s)}

(* file_store_init and s_ready_mount: the temporary goes before the mount is *)
(* READY; a mount that fails, or cannot remove or count, is in ERROR.        *)
Remount(d) ==
  LET clean == [d EXCEPT !.temp = Absent]
  IN  {Outcome(Mounted, clean, TRUE, FALSE)}
        \cup {Outcome(Faulted(Mounted), e, FALSE, FALSE) : e \in {d, clean}}

Dropped(s) == [Mounted EXCEPT !.ready = s.ready]

(* s_abort_upload: the upload ends in RAM whatever the cleanup on flash does. *)
Abort(s, d) ==
  IF ~s.ready THEN {Outcome(Dropped(s), d, FALSE, FALSE)}
  ELSE {Outcome(t, IF s.upload THEN [d EXCEPT !.temp = Absent] ELSE d, TRUE, FALSE) :
          t \in MaybeFaulted(Dropped(s))}
       \cup {Outcome(t, d, FALSE, FALSE) : t \in MaybeFaulted(Dropped(s))}

AbortedAfterError(s, d) ==
  {[o EXCEPT !.ok = FALSE] : o \in Abort(s, d) \cup Abort(Faulted(s), d)}

Begin(s, d, content) ==
  IF s.upload THEN Refuse(s, d)
  ELSE {Outcome(t, d, FALSE, FALSE) : t \in MaybeFaulted(s)}
       \cup {Outcome(t, [d EXCEPT !.temp = <<>>], TRUE, FALSE) :
               t \in MaybeFaulted([s EXCEPT !.upload = TRUE, !.declared = content])}

(* s_write_upload: in order, within the declared size; the chunk stays in the *)
(* writer until COMMIT closes it.                                             *)
Write(s, d, at, chunk) ==
  IF ~s.upload \/ at # Len(s.written) \/ at >= Len(s.declared) THEN Refuse(s, d)
  ELSE {Outcome([s EXCEPT !.written = Append(@, chunk)], d, TRUE, FALSE)}
       \cup AbortedAfterError(s, d)

(* s_start_commit: sync and close the writer, reopen the temporary to verify. *)
StartCommit(s, d) ==
  IF ~s.upload \/ Len(s.written) # Len(s.declared) THEN Refuse(s, d)
  ELSE {Deferred([s EXCEPT !.committing = TRUE, !.verified = 0], [d EXCEPT !.temp = s.written])}
       \cup AbortedAfterError(s, d)

Renamed(d) == [file |-> d.temp, temp |-> Absent]

(* s_complete_commit after a verification that did or did not succeed.  The   *)
(* usage count that follows the rename may fault and changes no answer; a     *)
(* rename that fails may have taken effect, since the name and the old entry  *)
(* are separate metadata commits of littlefs.                                 *)
CompleteCommit(s, d, good) ==
  AbortedAfterError(s, d)
    \cup (IF good
          THEN {Outcome(t, Renamed(d), TRUE, TRUE) : t \in MaybeFaulted(Dropped(s))}
                 \cup {[o EXCEPT !.effect = TRUE] : o \in AbortedAfterError(s, Renamed(d))}
          ELSE {})

(* Mutant of VerifyStep: the CRC is not compared. *)
VerifyStepTrusting(s, d) ==
  LET n == s.verified + 1
  IN  AbortedAfterError(s, d)
        \cup (IF n >= Len(s.declared) THEN CompleteCommit(s, d, TRUE)
              ELSE {Deferred([s EXCEPT !.verified = n], d)})

(* file_store_step while committing: one chunk is read back and added to the *)
(* CRC; the last one ends the commit in the same step.  A read that fails    *)
(* completes it with that error.                                             *)
VerifyStep(s, d) ==
  LET n == s.verified + 1
  IN  AbortedAfterError(s, d)
        \cup (IF n >= Len(s.declared) THEN CompleteCommit(s, d, d.temp = s.declared)
              ELSE {Deferred([s EXCEPT !.verified = n], d)})

(* OP_REMOVE, which stands for the operations that change a name at once. *)
Remove(s, d) ==
  IF s.upload THEN Refuse(s, d)
  ELSE {Outcome(t, d, FALSE, FALSE) : t \in MaybeFaulted(s)}
       \cup (IF d.file = Absent THEN {}
             ELSE {Outcome(t, [d EXCEPT !.file = Absent], TRUE, TRUE) : t \in MaybeFaulted(s)}
                  \cup {Outcome(Faulted(s), [d EXCEPT !.file = Absent], FALSE, TRUE)})

(* OP_LIST, OP_STAT, OP_READ *)
Look(s, d) == {Outcome(t, d, ok, FALSE) : t \in MaybeFaulted(s), ok \in BOOLEAN}

(* file_store_execute of request r *)
Execute(s, d, r) ==
  IF s.committing THEN Refuse(s, d)
  ELSE CASE r.op = "CANCEL" -> Abort(s, d)
         [] r.op # "CANCEL" /\ ~s.ready -> Refuse(s, d)
         [] r.op = "BEGIN"  /\ s.ready -> Begin(s, d, r.data)
         [] r.op = "WRITE"  /\ s.ready -> Write(s, d, r.at, r.data)
         [] r.op = "COMMIT" /\ s.ready -> StartCommit(s, d)
         [] r.op = "REMOVE" /\ s.ready -> Remove(s, d)
         [] r.op = "LIST"   /\ s.ready -> Look(s, d)

===============================================================================
