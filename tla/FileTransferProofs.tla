--------------------------- MODULE FileTransferProofs --------------------------
(***************************************************************************)
(* Proofs about FileTransfer: outside a session nothing is left open, a    *)
(* request reaches the store once, an OK is the result of that very        *)
(* request, and COMMIT and REMOVE are atomic for the client.               *)
(*                                                                         *)
(* The argument, bottom up:                                                *)
(*   - file_transfer.c knows whose request is in the mailbox of storage.c, *)
(*     and the upload the store holds belongs to the session (MailInv,     *)
(*     SessionInv, UploadInv, CacheInv);                                   *)
(*   - the line keeps the order of the invocations, so a session that left *)
(*     a trace is never bound again (OrderInv, BoundInv);                  *)
(*   - the host is stop-and-wait, so whatever of the session is on the     *)
(*     line is the request in turn or the one answered last (SequenceInv); *)
(*   - hence what was executed and told is behind the session's number     *)
(*     (ExecutedInv, AnswerIsOwn);                                         *)
(*   - hence at most the request the host asks about can still change the  *)
(*     file, and only until its result is there (PendInv, AppliedInv): the *)
(*     refinement of AtomicFile.                                           *)
(***************************************************************************)
EXTENDS FileTransfer, TLAPS

-----------------------------------------------------------------------------
(* Outcomes of the file store *)

(* Abort and the error path around it leave no upload and keep the file.    *)
Dead(d, o) ==
  /\ o.store \in Store /\ ~o.store.upload /\ ~o.store.committing
  /\ o.disk \in Disk /\ o.disk.file = d.file
  /\ o.ok \in BOOLEAN /\ o.effect = FALSE /\ o.deferred = FALSE

LEMMA FaultFacts ==
  ASSUME NEW s \in Store, NEW t \in MaybeFaulted(s)
  PROVE  /\ t \in Store
         /\ t.upload = s.upload /\ t.committing = s.committing /\ t.declared = s.declared
BY Zenon DEF MaybeFaulted, Faulted, Store

LEMMA DroppedFacts ==
  ASSUME NEW s \in Store
  PROVE  Dropped(s) \in Store /\ Dropped(s).upload = FALSE /\ Dropped(s).committing = FALSE
<1>1. Mounted \in Store /\ Mounted.upload = FALSE /\ Mounted.committing = FALSE
  <2>1. <<>> \in Content /\ 0 \in Nat
    BY DEF Content
  <2> QED BY <2>1, Zenon DEF Mounted, Store
<1>2. s.ready \in BOOLEAN
  BY DEF Store
<1> QED BY <1>1, <1>2, Zenon DEF Dropped, Store

LEMMA DiskFacts ==
  ASSUME NEW d \in Disk
  PROVE  [d EXCEPT !.temp = Absent] \in Disk /\ [d EXCEPT !.temp = Absent].file = d.file
BY Zenon DEF Disk, Files

LEMMA AbortFacts ==
  ASSUME NEW s \in Store, NEW d \in Disk, NEW o \in Abort(s, d)
  PROVE  Dead(d, o)
<1>1. \E t \in Store, e \in Disk, ok \in BOOLEAN :
         o = Outcome(t, e, ok, FALSE) /\ ~t.upload /\ ~t.committing /\ e.file = d.file
  <2>1. CASE ~s.ready
    BY <2>1, DroppedFacts DEF Abort
  <2>2. CASE s.ready
    <3>1. PICK t \in MaybeFaulted(Dropped(s)) :
            \/ o = Outcome(t, d, FALSE, FALSE)
            \/ o = Outcome(t, IF s.upload THEN [d EXCEPT !.temp = Absent] ELSE d, TRUE, FALSE)
      BY <2>2, Zenon DEF Abort
    <3>2. t \in Store /\ ~t.upload /\ ~t.committing
      BY DroppedFacts, FaultFacts
    <3> QED BY <3>1, <3>2, DiskFacts, Zenon
  <2> QED BY <2>1, <2>2
<1>2. PICK t \in Store, e \in Disk, ok \in BOOLEAN :
        o = Outcome(t, e, ok, FALSE) /\ ~t.upload /\ ~t.committing /\ e.file = d.file
  BY <1>1
<1>3. o.store = t /\ o.disk = e /\ o.ok = ok /\ o.effect = FALSE /\ o.deferred = FALSE
  BY <1>2 DEF Outcome
<1> QED BY <1>2, <1>3, Zenon DEF Dead

LEMMA AbortedFacts ==
  ASSUME NEW s \in Store, NEW d \in Disk, NEW o \in AbortedAfterError(s, d)
  PROVE  Dead(d, o) /\ o.ok = FALSE
<1>1. PICK p \in Abort(s, d) \cup Abort(Faulted(s), d) : o = [p EXCEPT !.ok = FALSE]
  BY Zenon DEF AbortedAfterError
<1>2. Faulted(s) \in Store
  BY FaultFacts, Zenon DEF MaybeFaulted
<1>3. Dead(d, p)
  BY <1>1, <1>2, AbortFacts
<1>4. \E t, e, ok : p = Outcome(t, e, ok, FALSE)
  BY <1>1, Zenon DEF Abort
<1>5. PICK t, e, ok : p = Outcome(t, e, ok, FALSE)
  BY <1>4
<1>6. o = Outcome(t, e, FALSE, FALSE)
  BY <1>1, <1>5, Zenon DEF Outcome
<1>7. p.store = t /\ p.disk = e
  BY <1>5 DEF Outcome
<1>8. o.store = t /\ o.disk = e /\ o.ok = FALSE /\ o.effect = FALSE /\ o.deferred = FALSE
  BY <1>6 DEF Outcome
<1> QED BY <1>3, <1>7, <1>8, Zenon DEF Dead

LEMMA RemountFacts ==
  ASSUME NEW d \in Disk, NEW o \in Remount(d)
  PROVE  Dead(d, o)
<1> DEFINE clean == [d EXCEPT !.temp = Absent]
<1>1. clean \in Disk /\ clean.file = d.file
  BY DiskFacts
<1>2. Mounted \in Store /\ Mounted.upload = FALSE /\ Mounted.committing = FALSE
  <2>1. <<>> \in Content /\ 0 \in Nat
    BY DEF Content
  <2> QED BY <2>1, Zenon DEF Mounted, Store
<1>3. \/ o = Outcome(Mounted, clean, TRUE, FALSE)
      \/ \E e \in {d, clean} : o = Outcome(Faulted(Mounted), e, FALSE, FALSE)
  BY Zenon DEF Remount
<1>4. Faulted(Mounted) \in Store /\ ~Faulted(Mounted).upload /\ ~Faulted(Mounted).committing
  BY <1>2, FaultFacts, Zenon DEF MaybeFaulted
<1> HIDE DEF clean
<1>5. PICK t \in Store, e \in Disk, ok \in BOOLEAN :
        o = Outcome(t, e, ok, FALSE) /\ ~t.upload /\ ~t.committing /\ e.file = d.file
  BY <1>1, <1>2, <1>3, <1>4, Zenon
<1>6. o.store = t /\ o.disk = e /\ o.ok = ok /\ o.effect = FALSE /\ o.deferred = FALSE
  BY <1>5 DEF Outcome
<1> QED BY <1>5, <1>6, Zenon DEF Dead

(* What a call does for request r: only BEGIN opens an upload, and records  *)
(* what it declared; CANCEL closes it; only COMMIT is answered by a later   *)
(* step; the file changes by a verified COMMIT or by REMOVE, and either     *)
(* answers ok only if it did.                                               *)
CallFacts(s, d, r, o) ==
  /\ o.store \in Store /\ o.disk \in Disk
  /\ o.ok \in BOOLEAN /\ o.effect \in BOOLEAN /\ o.deferred \in BOOLEAN
  /\ o.store.upload => \/ s.upload /\ o.store.declared = s.declared
                       \/ r.op = "BEGIN" /\ o.store.declared = r.data
  /\ r.op = "CANCEL" => ~o.store.upload
  /\ o.deferred <=> o.store.committing
  /\ o.deferred => r.op = "COMMIT" /\ o.store.upload
  /\ o.effect => /\ ~o.deferred
                 /\ \/ r.op = "COMMIT" /\ s.upload /\ o.disk.file = s.declared
                    \/ r.op = "REMOVE" /\ o.disk.file = Absent
  /\ ~o.effect => o.disk.file = d.file
  /\ o.ok /\ r.op \in {"COMMIT", "REMOVE"} /\ ~o.deferred => o.effect

LEMMA DeadCall ==
  ASSUME NEW s, NEW d, NEW r, NEW o, Dead(d, o), r.op \in {"COMMIT", "REMOVE"} => ~o.ok
  PROVE  CallFacts(s, d, r, o)
BY Zenon DEF Dead, CallFacts

(* An outcome that keeps the upload as it is. *)
LEMMA SteadyCall ==
  ASSUME NEW s \in Store, NEW d \in Disk, NEW r, NEW ok \in BOOLEAN, ~s.committing,
         NEW t \in Store, t.upload = s.upload, t.committing = s.committing,
         t.declared = s.declared,
         r.op = "CANCEL" => ~s.upload, r.op \in {"COMMIT", "REMOVE"} => ~ok,
         NEW o, o = Outcome(t, d, ok, FALSE)
  PROVE  CallFacts(s, d, r, o)
<1>1. o.store = t /\ o.disk = d /\ o.ok = ok /\ o.effect = FALSE /\ o.deferred = FALSE
  BY DEF Outcome
<1> QED BY <1>1, Zenon DEF CallFacts

LEMMA RefuseFacts ==
  ASSUME NEW s \in Store, NEW d \in Disk, NEW r, ~s.committing, r.op # "CANCEL",
         NEW o \in Refuse(s, d)
  PROVE  CallFacts(s, d, r, o)
BY SteadyCall, Zenon DEF Refuse

LEMMA BeginFacts ==
  ASSUME NEW s \in Store, NEW d \in Disk, NEW r, ~s.committing, r.op = "BEGIN",
         r.data \in Content, NEW o \in Begin(s, d, r.data)
  PROVE  CallFacts(s, d, r, o)
<1>0. r.op # "CANCEL" /\ r.op \notin {"COMMIT", "REMOVE"}
  OBVIOUS
<1>1. CASE s.upload
  BY <1>0, <1>1, RefuseFacts DEF Begin
<1>2. CASE ~s.upload
  <2> DEFINE b == [s EXCEPT !.upload = TRUE, !.declared = r.data]
             e == [d EXCEPT !.temp = <<>>]
  <2>1. b \in Store /\ b.declared = r.data /\ b.committing = FALSE
    <3>1. s.committing = FALSE
      BY DEF Store
    <3> QED BY <3>1, Zenon DEF Store
  <2>2. e \in Disk /\ e.file = d.file
    <3>1. <<>> \in Files
      BY DEF Files, Content
    <3> QED BY <3>1, Zenon DEF Disk
  <2>3. \/ \E t \in MaybeFaulted(s) : o = Outcome(t, d, FALSE, FALSE)
        \/ \E t \in MaybeFaulted(b) : o = Outcome(t, e, TRUE, FALSE)
    BY <1>2, Zenon DEF Begin
  <2> HIDE DEF b, e
  <2>4. CASE \E t \in MaybeFaulted(s) : o = Outcome(t, d, FALSE, FALSE)
    BY <1>0, <2>4, FaultFacts, SteadyCall, Zenon
  <2>5. CASE \E t \in MaybeFaulted(b) : o = Outcome(t, e, TRUE, FALSE)
    <3>1. PICK t \in MaybeFaulted(b) : o = Outcome(t, e, TRUE, FALSE)
      BY <2>5
    <3>2. t \in Store /\ ~t.committing /\ t.declared = r.data
      BY <2>1, FaultFacts, Zenon
    <3>3. o.store = t /\ o.disk = e /\ o.ok = TRUE /\ o.effect = FALSE /\ o.deferred = FALSE
      BY <3>1 DEF Outcome
    <3> QED BY <1>0, <2>2, <3>2, <3>3, Zenon DEF CallFacts
  <2> QED BY <2>3, <2>4, <2>5
<1> QED BY <1>1, <1>2

LEMMA WriteFacts ==
  ASSUME NEW s \in Store, NEW d \in Disk, NEW r, ~s.committing, r.op = "WRITE",
         r.data \in Chunks, NEW o \in Write(s, d, r.at, r.data)
  PROVE  CallFacts(s, d, r, o)
<1>0. r.op # "CANCEL" /\ r.op \notin {"COMMIT", "REMOVE"}
  OBVIOUS
<1>1. CASE ~s.upload \/ r.at # Len(s.written) \/ r.at >= Len(s.declared)
  BY <1>0, <1>1, RefuseFacts DEF Write
<1>2. CASE ~(~s.upload \/ r.at # Len(s.written) \/ r.at >= Len(s.declared))
  <2> DEFINE w == [s EXCEPT !.written = Append(@, r.data)]
  <2>1. w \in Store /\ w.upload = s.upload /\ w.committing = s.committing
        /\ w.declared = s.declared
    <3>1. Append(s.written, r.data) \in Content
      BY DEF Store, Content
    <3> QED BY <3>1, Zenon DEF Store
  <2>2. o = Outcome(w, d, TRUE, FALSE) \/ o \in AbortedAfterError(s, d)
    BY <1>2, Zenon DEF Write
  <2> HIDE DEF w
  <2> QED BY <1>0, <2>1, <2>2, SteadyCall, AbortedFacts, DeadCall, Zenon
<1> QED BY <1>1, <1>2

(* The upload is closed and its verification begins. *)
LEMMA StartCommitFacts ==
  ASSUME NEW s \in Store, NEW d \in Disk, NEW r, ~s.committing, r.op = "COMMIT",
         NEW o \in StartCommit(s, d)
  PROVE  /\ CallFacts(s, d, r, o)
         /\ o.deferred => s.upload /\ o.store.declared = s.declared /\ o.disk.file = d.file
<1>0. r.op # "CANCEL"
  OBVIOUS
<1>1. CASE ~s.upload \/ Len(s.written) # Len(s.declared)
  <2>1. o = Outcome(s, d, FALSE, FALSE)
    BY <1>1, Zenon DEF StartCommit, Refuse
  <2>2. o \in Refuse(s, d) /\ ~o.deferred
    BY <2>1 DEF Refuse, Outcome
  <2> QED BY <1>0, <2>2, RefuseFacts, Zenon
<1>2. CASE ~(~s.upload \/ Len(s.written) # Len(s.declared))
  <2> DEFINE w == [s EXCEPT !.committing = TRUE, !.verified = 0]
             e == [d EXCEPT !.temp = s.written]
  <2>1. w \in Store /\ w.upload = s.upload /\ w.committing = TRUE /\ w.declared = s.declared
    <3>1. 0 \in Nat
      OBVIOUS
    <3> QED BY <3>1, Zenon DEF Store
  <2>2. e \in Disk /\ e.file = d.file
    BY Zenon DEF Disk, Store, Files
  <2>3. o = Deferred(w, e) \/ o \in AbortedAfterError(s, d)
    BY <1>2, Zenon DEF StartCommit
  <2> HIDE DEF w, e
  <2>4. CASE o = Deferred(w, e)
    <3>1. o.store = w /\ o.disk = e /\ o.ok = TRUE /\ o.effect = FALSE /\ o.deferred = TRUE
      BY <2>4 DEF Deferred
    <3> QED BY <1>0, <1>2, <2>1, <2>2, <3>1, Zenon DEF CallFacts
  <2>5. CASE o \in AbortedAfterError(s, d)
    BY <2>5, AbortedFacts, DeadCall, Zenon DEF Dead
  <2> QED BY <2>3, <2>4, <2>5
<1> QED BY <1>1, <1>2

(* One step of the verification. *)
LEMMA VerifyFacts ==
  ASSUME NEW s \in Store, NEW d \in Disk, NEW r, s.committing, s.upload, r.op = "COMMIT",
         NEW o \in VerifyStep(s, d)
  PROVE  CallFacts(s, d, r, o)
<1>0. r.op # "CANCEL" /\ r.op # "BEGIN" /\ r.op # "REMOVE"
  OBVIOUS
<1> DEFINE n == s.verified + 1
           v == [s EXCEPT !.verified = n]
<1>1. v \in Store /\ v.upload /\ v.committing /\ v.declared = s.declared
  <2>1. n \in Nat
    BY DEF Store
  <2> HIDE DEF n
  <2> QED BY <2>1, Zenon DEF Store
<1>2. \/ o \in AbortedAfterError(s, d)
      \/ o = Deferred(v, d)
      \/ o \in CompleteCommit(s, d, d.temp = s.declared)
  BY Zenon DEF VerifyStep
<1> HIDE DEF v, n
<1>3. ASSUME o \in AbortedAfterError(s, d) PROVE CallFacts(s, d, r, o)
  BY <1>3, AbortedFacts, DeadCall, Zenon
<1>4. CASE o = Deferred(v, d)
  <2>1. o.store = v /\ o.disk = d /\ o.ok = TRUE /\ o.effect = FALSE /\ o.deferred = TRUE
    BY <1>4 DEF Deferred
  <2> QED BY <1>0, <1>1, <2>1, Zenon DEF CallFacts
<1>5. CASE o \in CompleteCommit(s, d, d.temp = s.declared) /\ o \notin AbortedAfterError(s, d)
  <2>1. /\ d.temp = s.declared
        /\ \/ \E t \in MaybeFaulted(Dropped(s)) : o = Outcome(t, Renamed(d), TRUE, TRUE)
           \/ \E p \in AbortedAfterError(s, Renamed(d)) : o = [p EXCEPT !.effect = TRUE]
    BY <1>5, Zenon DEF CompleteCommit
  <2>2. Renamed(d) \in Disk /\ Renamed(d).file = s.declared
    BY <2>1, Zenon DEF Renamed, Disk, Files
  <2>3. CASE \E t \in MaybeFaulted(Dropped(s)) : o = Outcome(t, Renamed(d), TRUE, TRUE)
    <3>1. PICK t \in MaybeFaulted(Dropped(s)) : o = Outcome(t, Renamed(d), TRUE, TRUE)
      BY <2>3
    <3>2. t \in Store /\ ~t.upload /\ ~t.committing
      BY DroppedFacts, FaultFacts, Zenon
    <3>3. /\ o.store = t /\ o.disk = Renamed(d) /\ o.ok = TRUE
          /\ o.effect = TRUE /\ o.deferred = FALSE
      BY <3>1 DEF Outcome
    <3> QED BY <1>0, <2>2, <3>2, <3>3, Zenon DEF CallFacts
  <2>4. CASE \E p \in AbortedAfterError(s, Renamed(d)) : o = [p EXCEPT !.effect = TRUE]
    <3>1. PICK p \in AbortedAfterError(s, Renamed(d)) : o = [p EXCEPT !.effect = TRUE]
      BY <2>4
    <3>2. Dead(Renamed(d), p) /\ p.ok = FALSE
      BY <2>2, AbortedFacts, Zenon
    <3>3. PICK q \in Abort(s, Renamed(d)) \cup Abort(Faulted(s), Renamed(d)) :
            p = [q EXCEPT !.ok = FALSE]
      BY Zenon DEF AbortedAfterError
    <3>4. \E t, e, ok : q = Outcome(t, e, ok, FALSE)
      BY <3>3, Zenon DEF Abort
    <3>5. PICK t, e, ok : q = Outcome(t, e, ok, FALSE)
      BY <3>4
    <3>6. p = Outcome(t, e, FALSE, FALSE) /\ o = Outcome(t, e, FALSE, TRUE)
      BY <3>1, <3>3, <3>5, Zenon DEF Outcome
    <3>7. p.store = t /\ p.disk = e
      BY <3>6 DEF Outcome
    <3>8. o.store = t /\ o.disk = e /\ o.ok = FALSE /\ o.effect = TRUE /\ o.deferred = FALSE
      BY <3>6 DEF Outcome
    <3> QED BY <1>0, <2>2, <3>2, <3>7, <3>8, Zenon DEF CallFacts, Dead
  <2> QED BY <2>1, <2>3, <2>4
<1> QED BY <1>2, <1>3, <1>4, <1>5

LEMMA RemoveFacts ==
  ASSUME NEW s \in Store, NEW d \in Disk, NEW r, ~s.committing, r.op = "REMOVE",
         NEW o \in Remove(s, d)
  PROVE  CallFacts(s, d, r, o)
<1>0. r.op # "CANCEL" /\ r.op # "COMMIT" /\ r.op # "BEGIN"
  OBVIOUS
<1> DEFINE e == [d EXCEPT !.file = Absent]
<1>1. e \in Disk /\ e.file = Absent
  BY Zenon DEF Disk, Files
<1>2. \/ o = Outcome(s, d, FALSE, FALSE)
      \/ \E t \in MaybeFaulted(s) : o = Outcome(t, d, FALSE, FALSE)
      \/ \E t \in MaybeFaulted(s), ok \in BOOLEAN : o = Outcome(t, e, ok, TRUE)
  BY Zenon DEF Remove, Refuse, MaybeFaulted
<1> HIDE DEF e
<1>3. CASE o = Outcome(s, d, FALSE, FALSE) \/ \E t \in MaybeFaulted(s) : o = Outcome(t, d, FALSE, FALSE)
  BY <1>0, <1>3, FaultFacts, SteadyCall, Zenon
<1>4. CASE \E t \in MaybeFaulted(s), ok \in BOOLEAN : o = Outcome(t, e, ok, TRUE)
  <2>1. PICK t \in MaybeFaulted(s), ok \in BOOLEAN : o = Outcome(t, e, ok, TRUE)
    BY <1>4
  <2>2. t \in Store /\ t.upload = s.upload /\ ~t.committing /\ t.declared = s.declared
    BY FaultFacts, Zenon
  <2>3. o.store = t /\ o.disk = e /\ o.ok = ok /\ o.effect = TRUE /\ o.deferred = FALSE
    BY <2>1 DEF Outcome
  <2> QED BY <1>0, <1>1, <2>2, <2>3, Zenon DEF CallFacts
<1> QED BY <1>2, <1>3, <1>4

LEMMA ExecuteFacts ==
  ASSUME NEW s \in Store, NEW d \in Disk, NEW r, ~s.committing, r.op \in StoreOps,
         r.op = "BEGIN" => r.data \in Content, r.op = "WRITE" => r.data \in Chunks,
         NEW o \in Execute(s, d, r)
  PROVE  CallFacts(s, d, r, o)
<1>1. CASE r.op = "CANCEL"
  <2>1. o \in Abort(s, d)
    BY <1>1 DEF Execute
  <2> QED BY <1>1, <2>1, AbortFacts, DeadCall, Zenon
<1>2. CASE r.op # "CANCEL" /\ ~s.ready
  <2>1. o \in Refuse(s, d)
    BY <1>2 DEF Execute
  <2> QED BY <1>2, <2>1, RefuseFacts
<1>3. CASE r.op = "BEGIN" /\ s.ready
  <2>1. o \in Begin(s, d, r.data)
    BY <1>3 DEF Execute
  <2> QED BY <1>3, <2>1, BeginFacts
<1>4. CASE r.op = "WRITE" /\ s.ready
  <2>1. o \in Write(s, d, r.at, r.data)
    BY <1>4 DEF Execute
  <2> QED BY <1>4, <2>1, WriteFacts
<1>5. CASE r.op = "COMMIT" /\ s.ready
  <2>1. o \in StartCommit(s, d)
    BY <1>5 DEF Execute
  <2> QED BY <1>5, <2>1, StartCommitFacts
<1>6. CASE r.op = "REMOVE" /\ s.ready
  <2>1. o \in Remove(s, d)
    BY <1>6 DEF Execute
  <2> QED BY <1>6, <2>1, RemoveFacts
<1>7. CASE r.op = "LIST" /\ s.ready
  <2>1. PICK t \in MaybeFaulted(s), ok \in BOOLEAN : o = Outcome(t, d, ok, FALSE)
    <3>1. o \in Look(s, d)
      BY <1>7 DEF Execute
    <3> QED BY <3>1 DEF Look, Outcome
  <2>2. r.op # "CANCEL" /\ r.op \notin {"COMMIT", "REMOVE"}
    BY <1>7
  <2> QED BY <2>1, <2>2, FaultFacts, SteadyCall, Zenon
<1> QED BY <1>1, <1>2, <1>3, <1>4, <1>5, <1>6, <1>7 DEF StoreOps

(* One pass of storageTask over the mailbox. *)
LEMMA PassFacts ==
  ASSUME store \in Store, disk \in Disk, slot.request.op \in StoreOps,
         slot.request.op = "BEGIN" => slot.request.data \in Content,
         slot.request.op = "WRITE" => slot.request.data \in Chunks,
         store.committing => store.upload, store.committing <=> slot.state = "RUNNING",
         slot.state = "RUNNING" => slot.request.op = "COMMIT",
         NEW o \in Pass
  PROVE  CallFacts(store, disk, slot.request, o)
<1>1. CASE slot.state = "RUNNING"
  BY <1>1, VerifyFacts DEF Pass
<1>2. CASE slot.state # "RUNNING"
  <2>1. PICK p \in Execute(store, disk, slot.request) :
          o \in IF p.deferred THEN VerifyStep(p.store, p.disk) ELSE {p}
    BY <1>2 DEF Pass
  <2>2. CallFacts(store, disk, slot.request, p)
    BY <1>2, ExecuteFacts
  <2>3. CASE ~p.deferred
    BY <2>1, <2>2, <2>3
  <2>4. CASE p.deferred
    <3>1. slot.request.op = "COMMIT" /\ p.store \in Store /\ p.disk \in Disk
          /\ p.store.upload /\ p.store.committing
      BY <2>2, <2>4, Zenon DEF CallFacts
    <3>2. store.upload /\ p.store.declared = store.declared /\ p.disk.file = disk.file
      <4>1. p \in Refuse(store, disk) \/ p \in StartCommit(store, disk)
        BY <1>2, <3>1 DEF Execute
      <4>2. p \notin Refuse(store, disk)
        BY <2>4 DEF Refuse, Outcome
      <4> QED BY <1>2, <2>4, <3>1, <4>1, <4>2, StartCommitFacts
    <3>3. CallFacts(p.store, p.disk, slot.request, o)
      BY <2>1, <2>4, <3>1, VerifyFacts, Zenon
    <3> QED BY <3>1, <3>2, <3>3, Zenon DEF CallFacts
  <2> QED BY <2>3, <2>4
<1> QED BY <1>1, <1>2

-----------------------------------------------------------------------------
(* Sequences and frames *)

Members(q) == {q[i] : i \in DOMAIN q}

LEMMA EmptyFacts == Members(<<>>) = {} /\ DOMAIN <<>> = {}
BY DEF Members

LEMMA TailFacts ==
  ASSUME NEW S, NEW q \in Seq(S), q # <<>>
  PROVE  /\ Tail(q) \in Seq(S) /\ Head(q) \in Members(q) /\ Members(Tail(q)) \subseteq Members(q)
         /\ 1 \in DOMAIN q /\ q[1] = Head(q)
         /\ \A i \in DOMAIN Tail(q) : i \in Nat /\ i >= 1 /\ i + 1 \in DOMAIN q /\ Tail(q)[i] = q[i + 1]
<1>1. /\ 1 \in DOMAIN q /\ q[1] = Head(q) /\ Tail(q) \in Seq(S)
      /\ \A i \in DOMAIN Tail(q) : i \in Nat /\ i >= 1 /\ i + 1 \in DOMAIN q /\ Tail(q)[i] = q[i + 1]
  OBVIOUS
<1> QED BY <1>1, Zenon DEF Members

LEMMA AppendFacts ==
  ASSUME NEW S, NEW q \in Seq(S), NEW x \in S
  PROVE  /\ Append(q, x) \in Seq(S) /\ Members(Append(q, x)) = Members(q) \cup {x}
         /\ DOMAIN Append(q, x) = 1..(Len(q) + 1) /\ DOMAIN q = 1..Len(q) /\ Len(q) \in Nat
         /\ \A i \in DOMAIN q : Append(q, x)[i] = q[i]
         /\ Append(q, x)[Len(q) + 1] = x
<1>1. /\ Append(q, x) \in Seq(S)
      /\ DOMAIN Append(q, x) = 1..(Len(q) + 1) /\ DOMAIN q = 1..Len(q) /\ Len(q) \in Nat
      /\ \A i \in DOMAIN q : Append(q, x)[i] = q[i]
      /\ Append(q, x)[Len(q) + 1] = x
  OBVIOUS
<1>2. Members(Append(q, x)) \subseteq Members(q) \cup {x}
  BY <1>1 DEF Members
<1>3. Members(q) \cup {x} \subseteq Members(Append(q, x))
  BY <1>1 DEF Members
<1> QED BY <1>1, <1>2, <1>3

LEMMA MembersType ==
  ASSUME NEW S, NEW q \in Seq(S)
  PROVE  Members(q) \subseteq S
BY DEF Members

LEMMA SentFacts ==
  ASSUME NEW S, NEW q \in Seq(S), NEW x \in S
  PROVE  /\ Sent(q, x) \in Seq(S) /\ Members(Sent(q, x)) \subseteq Members(q) \cup {x}
         /\ Members(q) \subseteq Members(Sent(q, x))
         /\ Sent(q, x) \in {q, Append(q, x)}
BY AppendFacts DEF Sent

LEMMA RequestFacts ==
  ASSUME NEW op, NEW session, NEW sequence, NEW at, NEW data
  PROVE  /\ Request(op, session, sequence, at, data).op = op
         /\ Request(op, session, sequence, at, data).session = session
         /\ Request(op, session, sequence, at, data).sequence = sequence
         /\ Request(op, session, sequence, at, data).at = at
         /\ Request(op, session, sequence, at, data).data = data
BY DEF Request

LEMMA NoFrameFacts ==
  /\ NoFrame \in Frames /\ NoFrame.op = "none" /\ NoFrame.session = 0 /\ NoFrame.sequence = 0
  /\ NoFrame.at = 0 /\ NoFrame.data = <<>>
<1>1. <<>> \in Data
  BY DEF Data, Content
<1> QED BY <1>1 DEF NoFrame, Request, Frames, Ops

LEMMA AnswerFacts ==
  ASSUME NEW f \in Frames, NEW final \in BOOLEAN, NEW ok \in BOOLEAN
  PROVE  LET m == Answer(f, final, ok) IN
           /\ m \in Responses /\ m.op = f.op /\ m.session = f.session /\ m.sequence = f.sequence
           /\ m.final = final /\ m.ok = ok
BY DEF Answer, Frames, Responses

LEMMA FinalFacts ==
  ASSUME NEW f \in Frames, NEW ok \in BOOLEAN
  PROVE  /\ Final(f, ok) \in Responses /\ Final(f, ok).op = f.op
         /\ Final(f, ok).session = f.session /\ Final(f, ok).sequence = f.sequence
         /\ Final(f, ok).final = TRUE /\ Final(f, ok).ok = ok
BY AnswerFacts, Zenon DEF Final

LEMMA BusyFacts ==
  ASSUME NEW f \in Frames
  PROVE  /\ Busy(f) \in Responses /\ Busy(f).op = f.op
         /\ Busy(f).session = f.session /\ Busy(f).sequence = f.sequence
         /\ Busy(f).final = FALSE /\ Busy(f).ok = FALSE
BY AnswerFacts, Zenon DEF Busy

LEMMA NoAnswerFacts ==
  /\ NoAnswer \in Responses /\ NoAnswer.op = "none" /\ NoAnswer.session = 0
  /\ NoAnswer.sequence = 0 /\ NoAnswer.final = FALSE /\ NoAnswer.ok = FALSE
BY AnswerFacts, NoFrameFacts, Zenon DEF NoAnswer

LEMMA ReplyFacts ==
  ASSUME toHost \in Seq(Responses), NEW m \in Responses, Reply(m)
  PROVE  /\ toHost' \in Seq(Responses) /\ Members(toHost') \subseteq Members(toHost) \cup {m}
         /\ host.phase = "rest" => toHost' = toHost
BY SentFacts, Zenon DEF Reply

-----------------------------------------------------------------------------
(* What the actions do to the records of file_transfer.c and of the mailbox *)

FtBecomes(active, session, sequence, pending, binary, cleanup, exit) ==
  /\ ft' \in Transfer
  /\ ft'.active = active /\ ft'.session = session /\ ft'.sequence = sequence
  /\ ft'.pending = pending /\ ft'.binary = binary /\ ft'.cleanup = cleanup /\ ft'.exit = exit

SlotBecomes(state, request, from, ok) ==
  /\ slot' \in Mailbox
  /\ slot'.state = state /\ slot'.request = request /\ slot'.from = from /\ slot'.ok = ok

LEMMA Bounds == 0 \in 0..Sessions /\ 0 \in 0..Entries /\ 0 \in 0..Cuts
BY BoundsAssumption

LEMMA OffFacts ==
  ASSUME ft' = FtOff
  PROVE  FtBecomes("off", 0, 1, FALSE, FALSE, 0, FALSE)
<1>1. 0 \in 0..2 /\ 1 \in Nat
  OBVIOUS
<1> QED BY <1>1, Bounds, Zenon DEF FtOff, FtBecomes, Transfer

LEMMA OnFacts ==
  ASSUME ft' = [FtOff EXCEPT !.active = "on"]
  PROVE  FtBecomes("on", 0, 1, FALSE, FALSE, 0, FALSE)
<1>1. 0 \in 0..2 /\ 1 \in Nat
  OBVIOUS
<1> QED BY <1>1, Bounds, Zenon DEF FtOff, FtBecomes, Transfer

LEMMA SlotIdleFacts ==
  ASSUME slot' = SlotIdle
  PROVE  SlotBecomes("IDLE", NoFrame, "none", FALSE)
BY NoFrameFacts, Zenon DEF SlotIdle, SlotBecomes, Mailbox

LEMMA TextCommandFacts ==
  ASSUME TypeOK, NEW f, TextCommand(f)
  PROVE  /\ FtBecomes(ft.active, ft.session, ft.sequence, TRUE, FALSE, ft.cleanup, ft.exit)
         /\ \E r \in Frames : /\ SlotBecomes("PENDING", r, "text", FALSE)
                              /\ r.op \in {"REMOVE", "LIST"}
<1>1. PICK n \in 0..Entries :
        ft' = [ft EXCEPT !.pending = TRUE, !.binary = FALSE,
                         !.listing = IF f.at = 0 THEN 0 ELSE n]
  BY Zenon DEF TextCommand
<1>2. (IF f.at = 0 THEN 0 ELSE n) \in 0..Entries
  BY Bounds
<1>3. FtBecomes(ft.active, ft.session, ft.sequence, TRUE, FALSE, ft.cleanup, ft.exit)
  BY <1>1, <1>2, Zenon DEF TypeOK, FtBecomes, Transfer
<1> DEFINE r == [NoFrame EXCEPT !.op = IF f.at = 0 THEN "REMOVE" ELSE "LIST"]
<1>4. r \in Frames /\ r.op \in {"REMOVE", "LIST"}
  BY NoFrameFacts DEF Frames, Ops, StoreOps
<1>5. slot' = [state |-> "PENDING", from |-> "text", ok |-> FALSE, request |-> r]
  BY Zenon DEF TextCommand
<1> HIDE DEF r
<1>6. SlotBecomes("PENDING", r, "text", FALSE)
  BY <1>4, <1>5, Zenon DEF SlotBecomes, Mailbox
<1> QED BY <1>3, <1>4, <1>6

LEMMA HelloFacts ==
  ASSUME TypeOK, NEW f \in Frames, Hello(f), f.session \in 0..Sessions
  PROVE  FtBecomes(ft.active, f.session, 1, ft.pending, ft.binary, ft.cleanup, ft.exit)
<1>1. 1 \in Nat
  OBVIOUS
<1> QED BY <1>1, Zenon DEF Hello, TypeOK, FtBecomes, Transfer

LEMMA AnswerAtOnceFacts ==
  ASSUME TypeOK, NEW f \in Frames, AnswerAtOnce(f)
  PROVE  FtBecomes(ft.active, ft.session, ft.sequence + 1, ft.pending, TRUE, ft.cleanup, ft.exit)
<1>1. ft.sequence + 1 \in Nat
  BY DEF TypeOK, Transfer
<1> QED BY <1>1, Zenon DEF AnswerAtOnce, TypeOK, FtBecomes, Transfer

LEMMA ExitFacts ==
  ASSUME TypeOK, NEW f \in Frames, Exit(f)
  PROVE  FtBecomes(ft.active, ft.session, ft.sequence, ft.pending, TRUE, 1, TRUE)
<1>1. 1 \in 0..2
  OBVIOUS
<1> QED BY <1>1, Zenon DEF Exit, TypeOK, FtBecomes, Transfer

LEMMA SubmitFacts ==
  ASSUME TypeOK, NEW f \in Frames, Submit(f), slot.state = "IDLE"
  PROVE  /\ FtBecomes(ft.active, ft.session, ft.sequence, TRUE, TRUE, ft.cleanup, ft.exit)
         /\ SlotBecomes("PENDING", f, "host", FALSE)
<1>1. ft' = [ft EXCEPT !.binary = TRUE, !.pending = TRUE]
  BY DEF Submit
<1>2. slot' = [state |-> "PENDING", request |-> f, from |-> "host", ok |-> FALSE]
  BY DEF Submit
<1>3. FtBecomes(ft.active, ft.session, ft.sequence, TRUE, TRUE, ft.cleanup, ft.exit)
  BY <1>1, Zenon DEF TypeOK, FtBecomes, Transfer
<1>4. SlotBecomes("PENDING", f, "host", FALSE)
  BY <1>2, Zenon DEF SlotBecomes, Mailbox
<1> QED BY <1>3, <1>4

LEMMA CompleteBinaryFacts ==
  ASSUME TypeOK, CompleteBinary
  PROVE  /\ FtBecomes(ft.active, ft.session, ft.sequence + 1, FALSE, ft.binary, ft.cleanup, ft.exit)
         /\ SlotBecomes("IDLE", NoFrame, "none", FALSE)
<1>1. ft.sequence + 1 \in Nat
  BY DEF TypeOK, Transfer
<1>2. SlotBecomes("IDLE", NoFrame, "none", FALSE)
  BY SlotIdleFacts DEF CompleteBinary, TakeResult
<1> QED BY <1>1, <1>2, Zenon DEF CompleteBinary, TypeOK, FtBecomes, Transfer

LEMMA CompleteTextFacts ==
  ASSUME TypeOK, CompleteText
  PROVE  \/ /\ FtBecomes(ft.active, ft.session, ft.sequence, ft.pending, ft.binary, ft.cleanup, ft.exit)
            /\ SlotBecomes("PENDING", slot.request, slot.from, FALSE)
         \/ /\ FtBecomes(ft.active, ft.session, ft.sequence, FALSE, ft.binary, ft.cleanup, ft.exit)
            /\ SlotBecomes("IDLE", NoFrame, "none", FALSE)
            /\ slot' = SlotIdle
<1>1. CASE slot.ok /\ ft.listing > 0
  <2>1. ft' = [ft EXCEPT !.listing = @ - 1] /\ slot' = [slot EXCEPT !.state = "PENDING", !.ok = FALSE]
    BY <1>1, Zenon DEF CompleteText
  <2>2. ft.listing - 1 \in 0..Entries
    BY <1>1, BoundsAssumption DEF TypeOK, Transfer
  <2>3. FtBecomes(ft.active, ft.session, ft.sequence, ft.pending, ft.binary, ft.cleanup, ft.exit)
    BY <2>1, <2>2, Zenon DEF TypeOK, FtBecomes, Transfer
  <2>4. SlotBecomes("PENDING", slot.request, slot.from, FALSE)
    BY <2>1, Zenon DEF TypeOK, SlotBecomes, Mailbox
  <2> QED BY <2>3, <2>4
<1>2. CASE ~(slot.ok /\ ft.listing > 0)
  <2>1. ft' = [ft EXCEPT !.pending = FALSE, !.listing = 0] /\ slot' = SlotIdle
    BY <1>2, Zenon DEF CompleteText
  <2>2. FtBecomes(ft.active, ft.session, ft.sequence, FALSE, ft.binary, ft.cleanup, ft.exit)
    BY <2>1, Bounds, Zenon DEF TypeOK, FtBecomes, Transfer
  <2> QED BY <2>1, <2>2, SlotIdleFacts
<1> QED BY <1>1, <1>2

LEMMA FinishCleanupFacts ==
  ASSUME TypeOK, FinishCleanup
  PROVE  /\ slot' = SlotIdle /\ SlotBecomes("IDLE", NoFrame, "none", FALSE)
         /\ \/ /\ ft.exit
               /\ FtBecomes("linger", ft.session, ft.sequence + 1, FALSE, FALSE, 0, FALSE)
               /\ lastRequest' = pendingFrame /\ lastResponse' = Final(pendingFrame, slot.ok)
               /\ Reply(lastResponse')
               /\ pendingFrame' = pendingFrame
            \/ /\ ~ft.exit
               /\ FtBecomes("off", 0, 1, FALSE, FALSE, 0, FALSE)
               /\ Forget /\ toHost' = toHost
<1>1. slot' = SlotIdle /\ SlotBecomes("IDLE", NoFrame, "none", FALSE)
  BY SlotIdleFacts DEF FinishCleanup, TakeResult
<1>2. CASE ft.exit
  <2>1. ft' = [ft EXCEPT !.pending = FALSE, !.binary = FALSE, !.cleanup = 0, !.exit = FALSE,
                         !.sequence = @ + 1, !.active = "linger"]
        /\ lastRequest' = pendingFrame /\ lastResponse' = Final(pendingFrame, slot.ok)
        /\ Reply(lastResponse')
        /\ pendingFrame' = pendingFrame
    BY <1>2, Zenon DEF FinishCleanup
  <2>2. ft.sequence + 1 \in Nat /\ 0 \in 0..2
    BY DEF TypeOK, Transfer
  <2>3. FtBecomes("linger", ft.session, ft.sequence + 1, FALSE, FALSE, 0, FALSE)
    BY <2>1, <2>2, Zenon DEF TypeOK, FtBecomes, Transfer
  <2> QED BY <1>1, <1>2, <2>1, <2>3, Zenon
<1>3. CASE ~ft.exit
  <2>1. ft' = FtOff /\ Forget /\ toHost' = toHost
    BY <1>3, Zenon DEF FinishCleanup
  <2> QED BY <1>1, <1>3, <2>1, OffFacts, Zenon
<1> QED BY <1>2, <1>3

LEMMA StartCleanupFacts ==
  ASSUME TypeOK, StartCleanup
  PROVE  /\ FtBecomes(ft.active, ft.session, ft.sequence, TRUE, TRUE, 2, ft.exit)
         /\ \E r \in Frames : SlotBecomes("PENDING", r, "cleanup", FALSE) /\ r.op = "CANCEL"
<1> DEFINE r == [NoFrame EXCEPT !.op = "CANCEL"]
<1>1. r \in Frames /\ r.op = "CANCEL"
  BY NoFrameFacts DEF Frames, Ops, StoreOps
<1>2. slot' = [state |-> "PENDING", from |-> "cleanup", ok |-> FALSE, request |-> r]
  BY Zenon DEF StartCleanup
<1> HIDE DEF r
<1>3. SlotBecomes("PENDING", r, "cleanup", FALSE)
  BY <1>1, <1>2, Zenon DEF SlotBecomes, Mailbox
<1>4. 2 \in 0..2
  OBVIOUS
<1>5. FtBecomes(ft.active, ft.session, ft.sequence, TRUE, TRUE, 2, ft.exit)
  BY <1>4, Zenon DEF StartCleanup, TypeOK, FtBecomes, Transfer
<1> QED BY <1>1, <1>3, <1>5

-----------------------------------------------------------------------------
(* The inductive invariant *)

Line == Members(toDevice)
Heard == Members(toHost)

(* A frame carries a session from HELLO on, and the data its operation takes. *)
Proper(f) ==
  /\ f.op = "BEGIN" => f.data \in Uploads
  /\ f.op = "WRITE" => f.data \in Chunks
  /\ f.op \in {"ENTER", "TEXT", "none"} <=> f.session = 0
  /\ f.op = "HELLO" <=> f.session # 0 /\ f.sequence = 0
  /\ f.session <= host.session

DataInv ==
  /\ \A f \in Line : Proper(f) /\ f.op # "none"
  /\ Proper(pendingFrame) /\ Proper(lastRequest) /\ Proper(host.frame)
  /\ slot.from = "host" => Proper(slot.request)

HostInv ==
  /\ host.phase # "wait" => host.frame = NoFrame
  /\ host.phase = "wait" => host.frame.session = host.session /\ host.session # 0
  /\ host.phase = "rest" => toHost = <<>>
  /\ host.phase = "enter" => host.session # 0 /\ \A f \in Line : f.session < host.session
  /\ host.frame.op = "WRITE" => host.frame.at < Len(job.content)
  /\ host.frame.op \in {"BEGIN", "WRITE", "COMMIT"} => job.kind = "upload"
  /\ host.frame.op = "BEGIN" => host.frame.data = job.content

(* The mailbox holds a request exactly while debugTask waits for its result, *)
(* and file_transfer.c knows whose it is.                                    *)
MailInv ==
  /\ ft.pending <=> slot.state # "IDLE"
  /\ slot.state = "IDLE" => slot = SlotIdle
  /\ ft.pending => slot.from = IF ft.cleanup = 2 THEN "cleanup"
                               ELSE IF ft.binary THEN "host" ELSE "text"
  /\ slot.from \in {"host", "cleanup"} => ft.active = "on"
  /\ slot.from = "text" => ft.active = "off" /\ slot.request.op \in {"REMOVE", "LIST"}
  /\ slot.from = "cleanup" => slot.request.op = "CANCEL"
  /\ slot.from = "host" =>
       /\ slot.request = pendingFrame /\ pendingFrame.op \in StoreOps
       /\ ft.session # 0 /\ pendingFrame.session = ft.session
       /\ pendingFrame.sequence = ft.sequence

SessionInv ==
  /\ ft.cleanup = 2 => ft.pending /\ ft.binary
  /\ ft.cleanup = 1 => ft.exit /\ ~ft.pending
  /\ ft.cleanup # 0 => ft.active = "on"
  /\ ft.exit => /\ ft.cleanup # 0 /\ pendingFrame.op = "EXIT" /\ ft.session # 0
                /\ pendingFrame.session = ft.session /\ pendingFrame.sequence = ft.sequence
  /\ ft.active = "off" => ft.session = 0
  /\ ft.active = "linger" => ft.session # 0 /\ ~ft.pending

UploadInv ==
  /\ store.upload => ft.active = "on" /\ ~(slot.from = "cleanup" /\ slot.state = "COMPLETE")
  /\ store.committing => store.upload
  /\ store.committing <=> slot.state = "RUNNING"
  /\ slot.state = "RUNNING" => slot.from = "host" /\ slot.request.op = "COMMIT"

(* The cache holds the request before the next one of the session.           *)
CacheInv ==
  /\ lastResponse.op = lastRequest.op /\ lastResponse.session = lastRequest.session
  /\ lastResponse.sequence = lastRequest.sequence
  /\ lastRequest.session = ft.session
  /\ ft.session # 0 => lastRequest.sequence + 1 = ft.sequence
  /\ pendingFrame.session \in {0, ft.session}

(* The line keeps the order in which the invocations used it: nothing of an  *)
(* earlier session comes behind the FS TRANSFER or the frames of a later one. *)
OrderedLine(q, last) ==
  \A i, j \in DOMAIN q : i < j /\ q[i].session # 0 =>
    /\ q[j].session # 0 => q[i].session <= q[j].session
    /\ q[j].op = "ENTER" =>
         /\ q[i].session < last
         /\ \A k \in DOMAIN q : j < k /\ q[k].session # 0 => q[i].session < q[k].session

(* HELLO would bind the session the next frame of that kind names.           *)
Unbound == ft.active # "off" /\ ft.session = 0

(* A session something is left of that only happens after its HELLO.         *)
Bound(s) ==
  /\ s # 0
  /\ \/ s = ft.session
     \/ \E e \in executed : e.session = s
     \/ \E m \in Heard : m.session = s
     \/ \E f \in Line \cup {host.frame} : f.session = s /\ f.op # "HELLO"

EnterWaits(q) == \E i \in DOMAIN q : q[i].op = "ENTER"
EnterAbove(q, s) ==
  \A i, j \in DOMAIN q : i < j /\ q[i].op = "ENTER" /\ q[j].session # 0 => s < q[j].session

(* ... and it can never be bound again: all that may still open a session is *)
(* of a later one.                                                           *)
Closed(s) ==
  /\ s <= host.session
  /\ \A f \in Line : f.session # 0 => s <= f.session
  /\ ft.session # 0 => s <= ft.session
  /\ EnterAbove(toDevice, s)
  /\ EnterWaits(toDevice) \/ host.phase = "enter" \/ Unbound => s < host.session
  /\ Unbound => \A f \in Line : f.session # 0 => s < f.session

BoundInv == \A s \in Nat : Bound(s) => Closed(s)
OrderInv == OrderedLine(toDevice, host.session)

InProgress == slot.from = "host" \/ ft.exit

(* Stop-and-wait: whatever of the session is on the line is the request the  *)
(* device expects or the one it has answered last.                           *)
Expected(f) == IF InProgress THEN f = pendingFrame
               ELSE f.sequence = ft.sequence \/ f = lastRequest

SortedLine(q) == \A i, j \in DOMAIN q :
  i < j /\ q[i].session # 0 /\ q[i].session = q[j].session => q[i].sequence <= q[j].sequence

SequenceInv ==
  /\ \A f \in Line \cup {host.frame} : f.session # 0 /\ f.session = ft.session => Expected(f)
  /\ \A f, g \in Line \cup {host.frame} :
       f.session # 0 /\ f.session = g.session /\ f.sequence = g.sequence => f = g
  /\ SortedLine(toDevice)
  /\ host.phase = "wait" =>
       \A f \in Line : f.session = host.session => f.sequence <= host.frame.sequence
  /\ \A m \in Heard : m.final /\ m.session # 0 /\ m.session = ft.session
                        => m.sequence < ft.sequence

ExecutedInv ==
  /\ \A e \in executed : e.session # 0
  /\ \A e \in executed : e.session = ft.session =>
       \/ e.sequence < ft.sequence
       \/ slot.from = "host" /\ slot.state = "COMPLETE" /\ e.sequence = ft.sequence
  /\ slot.from = "host" /\ slot.state = "COMPLETE" /\ slot.request.session = host.session
       => Final(slot.request, slot.ok) \in executed

(* A line typed at the console is served before the host gets anywhere.      *)
TypedInv ==
  /\ \A i \in DOMAIN toDevice : toDevice[i].op = "TEXT" => i = 1
  /\ (\E f \in Line : f.op = "TEXT") \/ slot.from = "text" =>
       ft.active = "off" /\ host.phase # "wait" /\ \A m \in Heard : m.op # "ENTER"

-----------------------------------------------------------------------------
(* What the actions of the host and of storageTask do *)

HostBecomes(phase, session, frame) ==
  /\ host' \in Client
  /\ host'.phase = phase /\ host'.session = session /\ host'.frame = frame

AskBecomes(target, told, applied) ==
  /\ ask' \in Question
  /\ ask'.target = target /\ ask'.told = told /\ ask'.applied = applied

HostOps == {"BEGIN", "WRITE", "COMMIT", "CANCEL", "REMOVE", "STATUS", "REFUSED", "EXIT"}

LEMMA JobFacts ==
  ASSUME NEW j \in Jobs
  PROVE  /\ j.content \in Content /\ j.kind \in {"upload", "remove", "refused", "status"}
         /\ j.kind = "upload" => j.content \in Uploads
<1>1. <<>> \in Content
  BY DEF Content
<1> QED BY <1>1, UploadsAssumption DEF Jobs

LEMMA NextOpFacts ==
  ASSUME job \in Jobs, NEW f, NEW ok, f.op \in Ops
  PROVE  /\ NextOp(f, ok) \in HostOps
         /\ NextOp(f, ok) = "BEGIN" => f.op = "HELLO" /\ job.kind = "upload"
         /\ NextOp(f, ok) = "REMOVE" => f.op = "HELLO"
         /\ NextOp(f, ok) = "WRITE" =>
              \/ f.op = "BEGIN" /\ job.content # <<>>
              \/ f.op = "WRITE" /\ f.at + 1 # Len(job.content)
         /\ NextOp(f, ok) = "COMMIT" => f.op \in {"BEGIN", "WRITE"}
<1>1. FirstOp \in {"BEGIN", "REMOVE", "REFUSED", "STATUS"}
      /\ (FirstOp = "BEGIN" => job.kind = "upload")
  BY JobFacts DEF FirstOp
<1>2. CASE f.op = "HELLO"
  BY <1>1, <1>2 DEF NextOp, HostOps
<1>3. CASE f.op = "BEGIN" /\ ok
  BY <1>3 DEF NextOp, HostOps
<1>4. CASE f.op = "WRITE" /\ ok
  BY <1>4 DEF NextOp, HostOps
<1>5. CASE f.op \in {"WRITE", "COMMIT"} /\ ~ok
  BY <1>5 DEF NextOp, HostOps
<1>6. CASE ~(f.op = "HELLO" \/ (f.op \in {"BEGIN", "WRITE"} /\ ok) \/ (f.op \in {"WRITE", "COMMIT"} /\ ~ok))
  BY <1>6 DEF NextOp, HostOps
<1> QED BY <1>2, <1>3, <1>4, <1>5, <1>6

LEMMA StartFacts ==
  ASSUME TypeOK, NEW j \in Jobs, Start(j)
  PROVE  /\ HostBecomes("enter", host.session + 1, NoFrame)
         /\ LET g == Request("ENTER", 0, 0, 0, <<>>)
            IN  g \in Frames /\ toDevice' = Sent(toDevice, g)
<1>1. host.session + 1 \in 0..Sessions
  BY BoundsAssumption DEF TypeOK, Client, Start
<1>2. HostBecomes("enter", host.session + 1, NoFrame)
  BY <1>1, NoFrameFacts, Zenon DEF Start, HostBecomes, Client
<1>3. Request("ENTER", 0, 0, 0, <<>>) \in Frames
  <2>1. <<>> \in Data
    BY DEF Data, Content
  <2> QED BY <2>1 DEF Request, Frames, Ops
<1> QED BY <1>2, <1>3 DEF Start

LEMMA EnteredFacts ==
  ASSUME TypeOK, Entered
  PROVE  LET g == Request("HELLO", host.session, 0, 0, <<>>)
         IN  /\ g \in Frames /\ HostBecomes("wait", host.session, g)
             /\ toDevice' = Sent(toDevice, g)
<1> DEFINE g == Request("HELLO", host.session, 0, 0, <<>>)
<1>1. g \in Frames
  <2>1. <<>> \in Data /\ host.session \in Nat
    BY BoundsAssumption DEF Data, Content, TypeOK, Client
  <2> QED BY <2>1 DEF Request, Frames, Ops
<1>2. host' = [host EXCEPT !.phase = "wait", !.frame = g] /\ toDevice' = Sent(toDevice, g)
  BY Zenon DEF Entered, Exchange
<1> HIDE DEF g
<1>3. HostBecomes("wait", host.session, g)
  BY <1>1, <1>2, Zenon DEF HostBecomes, TypeOK, Client
<1> QED BY <1>1, <1>2, <1>3 DEF g

LEMMA RestFacts ==
  ASSUME TypeOK, host' = [host EXCEPT !.phase = "rest", !.frame = NoFrame]
  PROVE  HostBecomes("rest", host.session, NoFrame)
BY NoFrameFacts, Zenon DEF HostBecomes, TypeOK, Client

LEMMA AnsweredFacts ==
  ASSUME TypeOK, HostInv, Answered
  PROVE  \/ /\ host.frame.op = "EXIT"
            /\ HostBecomes("rest", host.session, NoFrame)
            /\ job' = NoJob /\ toHost' = <<>> /\ toDevice' = toDevice
         \/ /\ host.frame.op # "EXIT"
            /\ \E g \in Frames :
                 /\ HostBecomes("wait", host.session, g)
                 /\ toDevice' = Sent(toDevice, g) /\ toHost' = Tail(toHost) /\ job' = job
                 /\ g.op = NextOp(host.frame, Head(toHost).ok)
                 /\ g.session = host.session /\ g.sequence = host.frame.sequence + 1
                 /\ g.op = "WRITE" => g.at < Len(job.content) /\ g.data \in Chunks
                 /\ g.op = "BEGIN" => g.data = job.content
<1> DEFINE m == Head(toHost)
           op == NextOp(host.frame, m.ok)
           at == IF op = "WRITE" /\ host.frame.op = "WRITE" THEN host.frame.at + 1 ELSE 0
<1>0. host.frame \in Frames /\ host.session \in Nat /\ job.content \in Content
  BY JobFacts, BoundsAssumption DEF TypeOK, Client
<1>1. CASE host.frame.op = "EXIT"
  <2>1. host' = [host EXCEPT !.phase = "rest", !.frame = NoFrame]
        /\ job' = NoJob /\ toHost' = <<>> /\ toDevice' = toDevice
    BY <1>1, Zenon DEF Answered
  <2> QED BY <1>1, <2>1, RestFacts, Zenon
<1>2. CASE host.frame.op # "EXIT"
  <2>1. PICK data \in CASE op = "WRITE" -> {job.content[at + 1], Spoiled}
                        [] op = "BEGIN" -> {job.content}
                        [] OTHER -> {<<>>} :
          Exchange(op, host.frame.sequence + 1, at, data)
    BY <1>2, Zenon DEF Answered
  <2>2. toHost' = Tail(toHost) /\ job' = job
    BY <1>2, Zenon DEF Answered
  <2>3. op \in HostOps /\ host.frame.op \in Ops
    BY <1>0, NextOpFacts DEF TypeOK, Frames
  <2>4. at \in Nat
    BY <1>0 DEF Frames
  <2>5. op = "WRITE" => at < Len(job.content)
    <3>1. CASE host.frame.op = "WRITE"
      BY <1>0, <2>3, <3>1, NextOpFacts DEF HostInv, Frames, TypeOK, Content
    <3>2. CASE host.frame.op # "WRITE"
      <4>1. op = "WRITE" => job.content # <<>>
        BY <2>3, <3>2, NextOpFacts DEF TypeOK
      <4> QED BY <1>0, <3>2, <4>1 DEF Content
    <3> QED BY <3>1, <3>2
  <2>6. /\ op = "WRITE" => data \in Chunks
        /\ op = "BEGIN" => data = job.content
        /\ op \notin {"WRITE", "BEGIN"} => data = <<>>
    <3>1. CASE op = "WRITE"
      <4>1. job.content[at + 1] \in Chunks
        BY <1>0, <2>4, <2>5, <3>1 DEF Content
      <4> HIDE DEF op, at
      <4>2. data \in {job.content[at + 1], Spoiled}
        BY <2>1, <3>1
      <4> QED BY <3>1, <4>1, <4>2, UploadsAssumption
    <3>2. CASE op # "WRITE"
      <4> HIDE DEF op, at
      <4> QED BY <2>1, <3>2
    <3> QED BY <3>1, <3>2
  <2>7. data \in Data
    <3>1. <<>> \in Content
      BY DEF Content
    <3> HIDE DEF op, at
    <3> QED BY <1>0, <2>6, <3>1, Zenon DEF Data
  <2> DEFINE g == Request(op, host.session, host.frame.sequence + 1, at, data)
  <2>8. g \in Frames
    <3>1. op \in Ops
      BY <2>3 DEF HostOps, Ops, StoreOps
    <3>2. host.frame.sequence + 1 \in Nat
      BY <1>0 DEF Frames
    <3> HIDE DEF op, at
    <3> QED BY <1>0, <2>4, <2>7, <3>1, <3>2 DEF Request, Frames
  <2>9. /\ g.op = op /\ g.session = host.session /\ g.sequence = host.frame.sequence + 1
        /\ g.at = at /\ g.data = data
    <3> HIDE DEF op, at
    <3> QED BY RequestFacts
  <2>10. host' = [host EXCEPT !.phase = "wait", !.frame = g] /\ toDevice' = Sent(toDevice, g)
    <3> HIDE DEF op, at
    <3> QED BY <2>1, Zenon DEF Exchange
  <2> HIDE DEF g
  <2>11. HostBecomes("wait", host.session, g)
    BY <2>8, <2>10, Zenon DEF HostBecomes, TypeOK, Client
  <2> QED BY <1>2, <2>2, <2>5, <2>6, <2>8, <2>9, <2>10, <2>11
<1> QED BY <1>1, <1>2

LEMMA StorageTaskFacts ==
  ASSUME TypeOK, DataInv, MailInv, UploadInv, StorageTask
  PROVE  \E o :
           /\ CallFacts(store, disk, slot.request, o)
           /\ store' = o.store /\ disk' = o.disk
           /\ SlotBecomes(IF o.deferred THEN "RUNNING" ELSE "COMPLETE", slot.request, slot.from, o.ok)
           /\ executed' = IF slot.from = "host" /\ ~o.deferred
                          THEN executed \cup {Final(slot.request, o.ok)} ELSE executed
           /\ AskBecomes(ask.target, ask.told, ask.applied \/ (slot.from = "host" /\ o.effect))
<1>1. PICK o \in Pass :
       /\ store' = o.store /\ disk' = o.disk
       /\ slot' = [slot EXCEPT !.state = IF o.deferred THEN "RUNNING" ELSE "COMPLETE",
                               !.ok = o.ok]
       /\ executed' = IF slot.from = "host" /\ ~o.deferred
                      THEN executed \cup {Final(slot.request, o.ok)} ELSE executed
       /\ ask' = [ask EXCEPT !.applied = @ \/ (slot.from = "host" /\ o.effect)]
  BY Zenon DEF StorageTask
<1>2. slot.from \in {"host", "cleanup", "text"} /\ slot.request \in Frames
  BY DEF StorageTask, MailInv, TypeOK, Mailbox
<1>3. /\ slot.request.op \in StoreOps
      /\ slot.request.op = "BEGIN" => slot.request.data \in Content
      /\ slot.request.op = "WRITE" => slot.request.data \in Chunks
  BY <1>2, UploadsAssumption DEF MailInv, DataInv, Proper, StoreOps
<1>4. CallFacts(store, disk, slot.request, o)
  BY <1>3, PassFacts DEF TypeOK, UploadInv
<1>5. o.ok \in BOOLEAN /\ o.effect \in BOOLEAN /\ o.deferred \in BOOLEAN
  BY <1>4 DEF CallFacts
<1>6. (IF o.deferred THEN "RUNNING" ELSE "COMPLETE") \in {"IDLE", "PENDING", "RUNNING", "COMPLETE"}
  OBVIOUS
<1>7. SlotBecomes(IF o.deferred THEN "RUNNING" ELSE "COMPLETE", slot.request, slot.from, o.ok)
  BY <1>1, <1>5, <1>6, Zenon DEF SlotBecomes, TypeOK, Mailbox
<1>8. AskBecomes(ask.target, ask.told, ask.applied \/ (slot.from = "host" /\ o.effect))
  BY <1>1, <1>5, Zenon DEF AskBecomes, TypeOK, Question
<1> QED BY <1>1, <1>4, <1>7, <1>8

-----------------------------------------------------------------------------
(* Types, frames and the host *)

Typed == TypeOK /\ DataInv /\ HostInv

LEMMA ReceiveFacts ==
  ASSUME Typed, toDevice # <<>>, toDevice' = Tail(toDevice)
  PROVE  /\ Head(toDevice) \in Frames /\ Head(toDevice) \in Line /\ Proper(Head(toDevice))
         /\ Head(toDevice).op # "none" /\ Head(toDevice).session \in 0..Sessions
         /\ toDevice' \in Seq(Frames) /\ Line' \subseteq Line
<1>1. /\ Head(toDevice) \in Line /\ toDevice' \in Seq(Frames) /\ Line' \subseteq Line
  BY TailFacts DEF Typed, TypeOK, Line
<1>2. Line \subseteq Frames
  BY MembersType DEF Typed, TypeOK, Line
<1>3. Proper(Head(toDevice)) /\ Head(toDevice).op # "none" /\ Head(toDevice) \in Frames
  BY <1>1, <1>2 DEF Typed, DataInv
<1>4. Head(toDevice).session \in Nat /\ Head(toDevice).session <= host.session
  BY <1>3 DEF Proper, Frames
<1>5. Head(toDevice).session \in 0..Sessions
  BY <1>4, BoundsAssumption DEF Typed, TypeOK, Client
<1> QED BY <1>1, <1>3, <1>5

LEMMA FlagTypes ==
  ASSUME TypeOK
  PROVE  /\ slot.ok \in BOOLEAN /\ ft.pending \in BOOLEAN /\ ft.binary \in BOOLEAN
         /\ ft.exit \in BOOLEAN /\ ft.sequence \in Nat /\ ft.session \in Nat
         /\ host.session \in Nat /\ host.frame \in Frames /\ slot.request \in Frames
BY BoundsAssumption DEF TypeOK, Mailbox, Transfer, Client

(* Everything the frame conditions of a step on the device alone need.      *)
DeviceTyped ==
  /\ UNCHANGED <<host, job>>
  /\ toDevice' \in Seq(Frames) /\ Line' \subseteq Line
  /\ toHost' \in Seq(Responses) /\ (host.phase = "rest" => toHost' = toHost)
  /\ ft' \in Transfer /\ slot' \in Mailbox
  /\ pendingFrame' \in Frames /\ Proper(pendingFrame')
  /\ lastRequest' \in Frames /\ Proper(lastRequest') /\ lastResponse' \in Responses
  /\ slot'.from = "host" => Proper(slot'.request)
  /\ store' \in Store /\ disk' \in Disk /\ cuts' \in 0..Cuts
  /\ executed' \subseteq Responses /\ ask' \in Question

LEMMA DeviceTypedStep == Typed /\ DeviceTyped => Typed'
<1> SUFFICES ASSUME Typed, DeviceTyped PROVE Typed'
  OBVIOUS
<1>1. TypeOK'
  BY DEF Typed, TypeOK, DeviceTyped
<1>2. DataInv'
  BY DEF Typed, DataInv, DeviceTyped, Proper
<1>3. HostInv'
  BY DEF Typed, HostInv, DeviceTyped
<1> QED BY <1>1, <1>2, <1>3 DEF Typed

LEMMA ForgetFacts ==
  ASSUME Forget
  PROVE  /\ pendingFrame' = NoFrame /\ lastRequest' = NoFrame /\ lastResponse' = NoAnswer
         /\ pendingFrame' \in Frames /\ lastRequest' \in Frames /\ lastResponse' \in Responses
BY NoFrameFacts, NoAnswerFacts DEF Forget

LEMMA NoFrameProper == ASSUME TypeOK PROVE Proper(NoFrame)
BY NoFrameFacts, FlagTypes DEF Proper

LEMMA ReceiveTyped == Typed /\ MailInv /\ Receive => Typed'
<1> SUFFICES ASSUME Typed, MailInv, Receive PROVE Typed'
  OBVIOUS
<1> DEFINE f == Head(toDevice)
<1>0. toDevice # <<>> /\ toDevice' = Tail(toDevice)
  BY DEF Receive
<1>1. /\ f \in Frames /\ f \in Line /\ Proper(f) /\ f.op # "none"
      /\ f.session \in 0..Sessions /\ toDevice' \in Seq(Frames) /\ Line' \subseteq Line
  BY <1>0, ReceiveFacts
<1>2. \/ Enter(f) \/ TextCommand(f) \/ ConsoleRefuses(f)
      \/ Hello(f) \/ Ignore(f) \/ AnswerAgain(f) \/ TurnAway(f)
      \/ AnswerAtOnce(f) \/ Exit(f) \/ Submit(f)
  BY DEF Receive
<1> HIDE DEF f
<1> USE <1>1, FlagTypes, NoFrameProper DEF Typed, DeviceTyped, TypeOK, DataInv
<1> USE DEF hostVars, deviceVars, storeVars
<1>3. CASE Enter(f)
  <2>1. Final(f, TRUE) \in Responses
    BY FinalFacts
  <2> QED BY <1>3, <2>1, OnFacts, ForgetFacts, ReplyFacts, DeviceTypedStep DEF Enter, FtBecomes
<1>4. CASE TextCommand(f)
  BY <1>4, TextCommandFacts, DeviceTypedStep DEF TextCommand, FtBecomes, SlotBecomes
<1>5. CASE ConsoleRefuses(f)
  BY <1>5, DeviceTypedStep DEF ConsoleRefuses
<1>6. CASE Hello(f)
  <2>1. Final(f, TRUE) \in Responses
    BY FinalFacts
  <2> QED BY <1>6, <2>1, HelloFacts, ReplyFacts, DeviceTypedStep DEF Hello, FtBecomes
<1>7. CASE Ignore(f)
  BY <1>7, DeviceTypedStep DEF Ignore
<1>8. CASE AnswerAgain(f)
  BY <1>8, ReplyFacts, DeviceTypedStep DEF AnswerAgain
<1>9. CASE TurnAway(f)
  <2>1. Final(f, FALSE) \in Responses /\ Busy(f) \in Responses
    BY FinalFacts, BusyFacts
  <2> QED BY <1>9, <2>1, ReplyFacts, DeviceTypedStep DEF TurnAway
<1>10. CASE AnswerAtOnce(f)
  <2>1. \A ok \in BOOLEAN : Final(f, ok) \in Responses
    BY FinalFacts
  <2> QED BY <1>10, <2>1, AnswerAtOnceFacts, ReplyFacts, DeviceTypedStep DEF AnswerAtOnce, FtBecomes
<1>11. CASE Exit(f)
  BY <1>11, ExitFacts, DeviceTypedStep DEF Exit, FtBecomes
<1>12. CASE Submit(f)
  <2>1. Busy(f) \in Responses
    BY BusyFacts
  <2>2. slot.state = "IDLE"
    BY <1>12 DEF Submit, InTurn, FtBusy, MailInv
  <2> QED BY <1>12, <2>1, <2>2, SubmitFacts, ReplyFacts, DeviceTypedStep
      DEF Submit, FtBecomes, SlotBecomes
<1> QED BY <1>2, <1>3, <1>4, <1>5, <1>6, <1>7, <1>8, <1>9, <1>10, <1>11, <1>12

LEMMA DeviceTasksTyped ==
  Typed /\ MailInv /\ SessionInv /\ UploadInv
    /\ (Poll \/ StorageTask \/ MountAgain \/ PowerCut \/ Lose) => Typed'
<1> SUFFICES ASSUME Typed, MailInv, SessionInv, UploadInv,
                    Poll \/ StorageTask \/ MountAgain \/ PowerCut \/ Lose
             PROVE  Typed'
  OBVIOUS
<1> USE FlagTypes, NoFrameProper DEF Typed, DeviceTyped, TypeOK, DataInv
<1> USE DEF hostVars, lineVars, deviceVars, storeVars
<1>0. pendingFrame \in Frames /\ Final(pendingFrame, slot.ok) \in Responses
  BY FinalFacts
<1>1. CASE CompleteBinary
  BY <1>0, <1>1, CompleteBinaryFacts, ReplyFacts, DeviceTypedStep
  DEF CompleteBinary, FtBecomes, SlotBecomes, Line
<1>2. CASE CompleteText
  <2>1. slot.from = "text"
    BY <1>2 DEF CompleteText, MailInv, SessionInv
  <2> QED BY <1>2, <2>1, CompleteTextFacts, DeviceTypedStep
      DEF CompleteText, FtBecomes, SlotBecomes, Line
<1>3. CASE FinishCleanup
  <2>1. UNCHANGED <<hostVars, toDevice, store, disk, executed, cuts, ask>>
    BY <1>3 DEF FinishCleanup
  <2> QED BY <1>0, <1>3, <2>1, FinishCleanupFacts, ForgetFacts, ReplyFacts, DeviceTypedStep
      DEF FtBecomes, SlotBecomes, Line
<1>4. CASE Progress
  <2>1. \A g \in Frames : Busy(g) \in Responses
    BY BusyFacts
  <2>2. [pendingFrame EXCEPT !.op = "EXIT"] \in Frames
    BY DEF Frames, Ops
  <2> QED BY <1>4, <2>1, <2>2, ReplyFacts, DeviceTypedStep DEF Progress, Line
<1>5. CASE LingerExpires
  BY <1>5, OffFacts, ForgetFacts, DeviceTypedStep DEF LingerExpires, FtBecomes, Line
<1>6. CASE StartCleanup
  BY <1>6, StartCleanupFacts, DeviceTypedStep DEF StartCleanup, FtBecomes, SlotBecomes, Line
<1>7. CASE StorageTask
  <2>1. PICK o :
           /\ CallFacts(store, disk, slot.request, o)
           /\ store' = o.store /\ disk' = o.disk
           /\ SlotBecomes(IF o.deferred THEN "RUNNING" ELSE "COMPLETE", slot.request, slot.from, o.ok)
           /\ executed' = IF slot.from = "host" /\ ~o.deferred
                          THEN executed \cup {Final(slot.request, o.ok)} ELSE executed
           /\ AskBecomes(ask.target, ask.told, ask.applied \/ (slot.from = "host" /\ o.effect))
    BY <1>7, StorageTaskFacts
  <2>2. store' \in Store /\ disk' \in Disk /\ o.ok \in BOOLEAN
    BY <2>1 DEF CallFacts
  <2>3. Final(slot.request, o.ok) \in Responses
    BY <2>2, FinalFacts
  <2>4. executed' \subseteq Responses
    BY <2>1, <2>3
  <2>5. UNCHANGED <<hostVars, lineVars, deviceVars, cuts>>
    BY <1>7 DEF StorageTask
  <2> QED BY <2>1, <2>2, <2>4, <2>5, DeviceTypedStep DEF SlotBecomes, AskBecomes, Line
<1>8. CASE MountAgain
  <2>1. store' \in Store /\ disk' \in Disk
    BY <1>8, RemountFacts DEF MountAgain, Dead
  <2> QED BY <1>8, <2>1, DeviceTypedStep DEF MountAgain, Line
<1>9. CASE PowerCut
  <2>1. store' \in Store /\ disk' \in Disk
    BY <1>9, RemountFacts DEF PowerCut, Dead
  <2>2. toDevice' = <<>> /\ Line' = {}
    BY <1>9, EmptyFacts DEF PowerCut, Line
  <2>3. cuts' \in 0..Cuts
    BY <1>9, BoundsAssumption DEF PowerCut
  <2> QED BY <1>9, <2>1, <2>2, <2>3, OffFacts, SlotIdleFacts, ForgetFacts, DeviceTypedStep
      DEF PowerCut, FtBecomes, SlotBecomes
<1>10. CASE Lose
  <2>1. toDevice' \in Seq(Frames) /\ Line' \subseteq Line
    BY <1>10, TailFacts DEF Lose, Line
  <2>2. toHost' \in Seq(Responses) /\ (toHost = <<>> => toHost' = toHost)
    BY <1>10, TailFacts DEF Lose
  <2> QED BY <1>10, <2>1, <2>2, DeviceTypedStep DEF Lose, HostInv
<1> QED BY <1>1, <1>2, <1>3, <1>4, <1>5, <1>6, <1>7, <1>8, <1>9, <1>10 DEF Poll

(* A host that sends a frame: the type of all it changes.                   *)
HostTyped(g) ==
  /\ g \in Frames /\ toDevice' = Sent(toDevice, g)
  /\ host' \in Client /\ job' \in Jobs /\ host.session <= host'.session
  /\ toHost' \in Seq(Responses)
  /\ \A f \in Line \cup {g, host'.frame} :
       /\ f.op = "BEGIN" => f.data \in Uploads
       /\ f.op = "WRITE" => f.data \in Chunks
       /\ f.op \in {"ENTER", "TEXT", "none"} <=> f.session = 0
       /\ f.op = "HELLO" <=> f.session # 0 /\ f.sequence = 0
       /\ f.session <= host'.session
  /\ g.op # "none"
  /\ UNCHANGED <<deviceVars, slot, store, disk, cuts>>
  /\ executed' \subseteq Responses /\ ask' \in Question

LEMMA HostTypedStep ==
  ASSUME Typed, NEW g, HostTyped(g)
  PROVE  TypeOK' /\ DataInv' /\ Line' \subseteq Line \cup {g}
<1>1. toDevice' \in Seq(Frames) /\ Line' \subseteq Line \cup {g}
  BY SentFacts DEF Typed, TypeOK, HostTyped, Line
<1>2. TypeOK'
  BY <1>1 DEF Typed, TypeOK, HostTyped, deviceVars
<1>3. host.session \in Nat /\ host'.session \in Nat
  BY BoundsAssumption DEF Typed, TypeOK, HostTyped, Client
<1>4. pendingFrame.session \in Nat /\ lastRequest.session \in Nat /\ slot.request.session \in Nat
  BY DEF Typed, TypeOK, Frames, Mailbox
<1>5. DataInv'
  BY <1>1, <1>3, <1>4 DEF Typed, DataInv, HostTyped, Proper, deviceVars
<1> QED BY <1>1, <1>2, <1>5

LEMMA AskTypes ==
  ASSUME TypeOK
  PROVE  /\ NoAsk \in Question /\ NoJob \in Jobs /\ job.content \in Files /\ Absent \in Files
         /\ \A told \in {"none", "waiting", "ok", "error", "unknown"} :
              [ask EXCEPT !.told = told] \in Question
<1>1. Absent \in Files /\ job.content \in Files
  BY JobFacts DEF Files, TypeOK
<1>2. NoAsk \in Question
  BY <1>1, Zenon DEF NoAsk, Question
<1>3. NoJob \in Jobs
  BY DEF NoJob, Jobs
<1>4. ASSUME NEW told \in {"none", "waiting", "ok", "error", "unknown"}
      PROVE  [ask EXCEPT !.told = told] \in Question
  BY Zenon DEF TypeOK, Question
<1> QED BY <1>1, <1>2, <1>3, <1>4

LEMMA HostActsTyped == Typed /\ Host => Typed'
<1> SUFFICES ASSUME Typed, Host PROVE Typed'
  OBVIOUS
<1> USE DEF Typed
<1> USE DEF hostVars, lineVars, deviceVars, storeVars
<1>0. /\ host.session \in Nat /\ host.frame \in Frames /\ host.session >= 0
      /\ Line \subseteq Frames /\ \A f \in Line : f.session \in Nat /\ f.session <= host.session
  <2>1. Line \subseteq Frames
    BY MembersType DEF TypeOK, Line
  <2>2. \A f \in Line : f.session \in Nat /\ f.session <= host.session
    BY <2>1 DEF Frames, DataInv, Proper
  <2> QED BY <2>1, <2>2, FlagTypes
<1>1. CASE Type
  <2>1. PICK at \in {0, 1} : toDevice' = Sent(toDevice, Request("TEXT", 0, 0, at, <<>>))
    BY <1>1 DEF Type
  <2> DEFINE g == Request("TEXT", 0, 0, at, <<>>)
  <2>2. g \in Frames /\ g.op = "TEXT" /\ g.session = 0
    <3>1. <<>> \in Data
      BY DEF Data, Content
    <3> QED BY <3>1 DEF Request, Frames, Ops
  <2>3. toDevice' = Sent(toDevice, g)
    BY <2>1
  <2> HIDE DEF g
  <2>4. host' = host /\ job' = job /\ toHost' = toHost
        /\ UNCHANGED <<deviceVars, slot, store, disk, cuts, executed, ask>>
    BY <1>1 DEF Type
  <2>5. HostTyped(g)
    BY <1>0, <2>2, <2>3, <2>4 DEF HostTyped, TypeOK, DataInv, Proper
  <2>6. HostInv'
    <3>1. host.phase = "rest"
      BY <1>1 DEF Type
    <3> QED BY <2>4, <3>1 DEF HostInv
  <2> QED BY <2>5, <2>6, HostTypedStep
<1>2. ASSUME NEW j \in Jobs, Start(j) PROVE Typed'
  <2> DEFINE g == Request("ENTER", 0, 0, 0, <<>>)
  <2>1. g \in Frames /\ toDevice' = Sent(toDevice, g) /\ HostBecomes("enter", host.session + 1, NoFrame)
    BY <1>2, StartFacts
  <2>2. g.op = "ENTER" /\ g.session = 0
    BY RequestFacts
  <2> HIDE DEF g
  <2>3. /\ job' = j /\ executed' = {} /\ ask' \in Question /\ toHost' = toHost /\ toHost = <<>>
        /\ UNCHANGED <<deviceVars, slot, store, disk, cuts>>
    BY <1>2, AskTypes DEF Start, TypeOK, HostInv
  <2>4. HostTyped(g)
    BY <1>0, <2>1, <2>2, <2>3, NoFrameFacts
    DEF HostTyped, HostBecomes, TypeOK, DataInv, Proper
  <2>5. \A f \in Line \cup {g} : f.session < host'.session
    BY <1>0, <2>1, <2>2 DEF HostBecomes
  <2>6. TypeOK' /\ DataInv' /\ Line' \subseteq Line \cup {g}
    BY <2>4, HostTypedStep
  <2>7. HostInv'
    BY <1>0, <2>1, <2>3, <2>5, <2>6, NoFrameFacts DEF HostInv, HostBecomes
  <2> QED BY <2>6, <2>7
<1>3. CASE Entered
  <2> DEFINE g == Request("HELLO", host.session, 0, 0, <<>>)
  <2>1. g \in Frames /\ HostBecomes("wait", host.session, g) /\ toDevice' = Sent(toDevice, g)
    BY <1>3, EnteredFacts
  <2>2. g.op = "HELLO" /\ g.session = host.session /\ g.sequence = 0
    BY RequestFacts
  <2> HIDE DEF g
  <2>3. /\ toHost' \in Seq(Responses) /\ host.session # 0
        /\ UNCHANGED <<job, deviceVars, slot, store, disk, executed, cuts, ask>>
    BY <1>3, TailFacts DEF Entered, TypeOK, HostInv
  <2>4. HostTyped(g)
    BY <1>0, <2>1, <2>2, <2>3 DEF HostTyped, HostBecomes, TypeOK, DataInv, Proper
  <2>5. HostInv'
    BY <2>1, <2>2, <2>3 DEF HostInv, HostBecomes
  <2> QED BY <2>4, <2>5, HostTypedStep
<1>4. CASE Skip
  <2>1. /\ host' = host /\ job' = job /\ toDevice' = toDevice /\ host.phase # "rest"
        /\ UNCHANGED <<deviceVars, slot, store, disk, executed, cuts, ask>>
        /\ toHost' \in Seq(Responses)
    BY <1>4, TailFacts DEF Skip, TypeOK
  <2>2. TypeOK'
    BY <2>1 DEF TypeOK
  <2>3. DataInv'
    BY <2>1 DEF DataInv, Line, Proper
  <2>4. HostInv'
    BY <2>1 DEF HostInv, Line
  <2> QED BY <2>2, <2>3, <2>4
<1>5. CASE Retry
  <2>1. /\ host' = host /\ job' = job /\ toHost' = toHost /\ host.phase = "wait"
        /\ UNCHANGED <<deviceVars, slot, store, disk, executed, cuts, ask>>
        /\ toDevice' = Sent(toDevice, host.frame)
    BY <1>5 DEF Retry
  <2>2. host.frame.op # "none"
    BY <1>0, <2>1 DEF HostInv, DataInv, Proper
  <2>3. HostTyped(host.frame)
    BY <1>0, <2>1, <2>2 DEF HostTyped, TypeOK, DataInv, Proper
  <2>4. HostInv'
    BY <2>1 DEF HostInv
  <2> QED BY <2>3, <2>4, HostTypedStep
<1>6. CASE GiveUp
  <2>1. HostBecomes("rest", host.session, NoFrame)
    BY <1>6, RestFacts DEF GiveUp
  <2>2. /\ job' = NoJob /\ toHost' = <<>> /\ toDevice' = toDevice
        /\ UNCHANGED <<deviceVars, slot, store, disk, executed, cuts>>
    BY <1>6 DEF GiveUp
  <2>3. ask' \in Question
    BY <1>6, AskTypes DEF GiveUp, TypeOK
  <2>4. TypeOK'
    BY <2>1, <2>2, <2>3, AskTypes DEF TypeOK, HostBecomes
  <2>5. DataInv'
    BY <2>1, <2>2, NoFrameProper, NoFrameFacts DEF DataInv, Line, Proper, HostBecomes
  <2>6. HostInv'
    BY <2>1, <2>2, NoFrameFacts DEF HostInv, HostBecomes
  <2> QED BY <2>4, <2>5, <2>6
<1>7. CASE Answered
  <2>1. /\ UNCHANGED <<deviceVars, slot, store, disk, executed, cuts>>
        /\ toHost # <<>> /\ host.phase = "wait"
    BY <1>7, Zenon DEF Answered
  <2>2. ask' \in Question
    <3>1. Target(NextOp(host.frame, Head(toHost).ok)) \in Files
      BY AskTypes DEF Target
    <3>2. \A t \in Files : [target |-> t, told |-> "waiting", applied |-> FALSE] \in Question
      BY Zenon DEF Question
    <3>3. \/ ask' = [ask EXCEPT !.told = "ok"] \/ ask' = [ask EXCEPT !.told = "error"]
          \/ ask' = ask
          \/ \E t \in Files : ask' = [target |-> t, told |-> "waiting", applied |-> FALSE]
      BY <1>7, <3>1, Zenon DEF Answered
    <3> QED BY <3>2, <3>3, AskTypes DEF TypeOK
  <2>3. CASE host.frame.op = "EXIT"
    <3>1. HostBecomes("rest", host.session, NoFrame)
          /\ job' = NoJob /\ toHost' = <<>> /\ toDevice' = toDevice
      BY <1>7, <2>3, AnsweredFacts
    <3>2. TypeOK'
      BY <2>1, <2>2, <3>1, AskTypes DEF TypeOK, HostBecomes
    <3>3. DataInv'
      BY <2>1, <3>1, NoFrameProper, NoFrameFacts DEF DataInv, Line, Proper, HostBecomes
    <3>4. HostInv'
      BY <3>1, NoFrameFacts DEF HostInv, HostBecomes
    <3> QED BY <3>2, <3>3, <3>4
  <2>4. CASE host.frame.op # "EXIT"
    <3>1. PICK g \in Frames :
             /\ HostBecomes("wait", host.session, g)
             /\ toDevice' = Sent(toDevice, g) /\ toHost' = Tail(toHost) /\ job' = job
             /\ g.op = NextOp(host.frame, Head(toHost).ok)
             /\ g.session = host.session /\ g.sequence = host.frame.sequence + 1
             /\ g.op = "WRITE" => g.at < Len(job.content) /\ g.data \in Chunks
             /\ g.op = "BEGIN" => g.data = job.content
      BY <1>7, <2>4, AnsweredFacts
    <3>2. /\ g.op \in HostOps /\ host.frame.op \in Ops
          /\ g.op = "BEGIN" => job.kind = "upload"
          /\ g.op \in {"WRITE", "COMMIT"} => host.frame.op \in {"BEGIN", "WRITE"}
      <4>1. host.frame.op \in Ops
        BY <1>0 DEF Frames
      <4> DEFINE op == NextOp(host.frame, Head(toHost).ok)
      <4>2. /\ op \in HostOps
            /\ op = "BEGIN" => job.kind = "upload"
            /\ op = "WRITE" => host.frame.op \in {"BEGIN", "WRITE"}
            /\ op = "COMMIT" => host.frame.op \in {"BEGIN", "WRITE"}
        BY <4>1, NextOpFacts DEF TypeOK
      <4>3. g.op = op
        BY <3>1
      <4> HIDE DEF op
      <4> QED BY <4>1, <4>2, <4>3
    <3>3. toHost' \in Seq(Responses)
      BY <2>1, <3>1, TailFacts DEF TypeOK
    <3>4. g.op = "BEGIN" => g.data \in Uploads
      BY <3>1, <3>2, JobFacts DEF TypeOK
    <3>5. host.session # 0 /\ g.sequence \in Nat /\ g.sequence # 0
      BY <1>0, <2>1, <3>1 DEF HostInv, Frames
    <3>6. HostTyped(g)
      BY <1>0, <2>1, <2>2, <3>1, <3>2, <3>3, <3>4, <3>5
      DEF HostTyped, HostBecomes, TypeOK, DataInv, Proper, HostOps
    <3>7. HostInv'
      BY <2>1, <3>1, <3>2, <3>5 DEF HostInv, HostBecomes
    <3> QED BY <3>6, <3>7, HostTypedStep
  <2> QED BY <2>3, <2>4
<1> QED BY <1>1, <1>2, <1>3, <1>4, <1>5, <1>6, <1>7 DEF Host

-----------------------------------------------------------------------------
(* The mailbox, the session, the upload and the cache *)

Local == MailInv /\ SessionInv /\ UploadInv /\ CacheInv

LEMMA EmptySlot ==
  ASSUME MailInv, ~ft.pending
  PROVE  slot.state = "IDLE" /\ slot.from = "none"
BY DEF MailInv, SlotIdle

LEMMA ReceiveLocal == Typed /\ Local /\ Receive => Local'
<1> SUFFICES ASSUME Typed, Local, Receive PROVE Local'
  OBVIOUS
<1> DEFINE f == Head(toDevice)
<1>0. toDevice # <<>> /\ toDevice' = Tail(toDevice)
  BY DEF Receive
<1>1. f \in Frames /\ Proper(f) /\ f.op # "none" /\ f.session \in 0..Sessions
  BY <1>0, ReceiveFacts
<1>2. \/ Enter(f) \/ TextCommand(f) \/ ConsoleRefuses(f)
      \/ Hello(f) \/ Ignore(f) \/ AnswerAgain(f) \/ TurnAway(f)
      \/ AnswerAtOnce(f) \/ Exit(f) \/ Submit(f)
  BY DEF Receive
<1> HIDE DEF f
<1> USE <1>1, FlagTypes, NoFrameFacts, NoAnswerFacts DEF Typed, Local, FtBusy
<1> USE DEF hostVars, deviceVars, storeVars, Ours, New, InTurn
<1> USE DEF MailInv, SessionInv, UploadInv, CacheInv
<1>3. CASE Enter(f)
  <2>11. /\ ft.active = "off" /\ ~ft.pending /\ ft.cleanup = 0
         /\ ft'.active = "on" /\ ft'.session = 0 /\ ft'.sequence = 1 /\ ~ft'.pending /\ ~ft'.binary
         /\ ft'.cleanup = 0 /\ ~ft'.exit
         /\ pendingFrame' = NoFrame /\ lastRequest' = NoFrame /\ lastResponse' = NoAnswer
         /\ slot' = slot /\ store' = store /\ slot.from = "none"
    BY <1>3, EmptySlot, OnFacts, ForgetFacts DEF Enter, FtBecomes
  <2>21. MailInv'
    BY <2>11
  <2>22. SessionInv'
    BY <2>11
  <2>23. UploadInv'
    BY <2>11
  <2>24. CacheInv'
    BY <2>11
  <2> QED BY <2>21, <2>22, <2>23, <2>24
<1>4. CASE TextCommand(f)
  <2>1. /\ FtBecomes(ft.active, ft.session, ft.sequence, TRUE, FALSE, ft.cleanup, ft.exit)
        /\ \E r \in Frames : SlotBecomes("PENDING", r, "text", FALSE) /\ r.op \in {"REMOVE", "LIST"}
    BY <1>4, TextCommandFacts
  <2>2. slot'.state = "PENDING" /\ slot'.from = "text" /\ slot'.request.op \in {"REMOVE", "LIST"}
    BY <2>1 DEF SlotBecomes
  <2>3. ft.active = "off" /\ ~ft.pending /\ ft.cleanup = 0
        /\ UNCHANGED <<pendingFrame, lastRequest, lastResponse, store>>
    BY <1>4 DEF TextCommand
  <2>11. /\ ft.active = "off" /\ ~ft.pending /\ ft.cleanup = 0 /\ ~ft.exit /\ slot.from = "none"
         /\ ft'.active = "off" /\ ft'.session = ft.session /\ ft'.sequence = ft.sequence
         /\ ft'.pending /\ ~ft'.binary /\ ft'.cleanup = 0 /\ ~ft'.exit
         /\ UNCHANGED <<pendingFrame, lastRequest, lastResponse, store>>
         /\ slot'.state = "PENDING" /\ slot'.from = "text" /\ slot'.request.op \in {"REMOVE", "LIST"}
    BY <2>1, <2>2, <2>3, EmptySlot DEF FtBecomes
  <2>21. MailInv'
    BY <2>11
  <2>22. SessionInv'
    BY <2>11
  <2>23. UploadInv'
    BY <2>11
  <2>24. CacheInv'
    BY <2>11
  <2> QED BY <2>21, <2>22, <2>23, <2>24
<1>5. CASE ConsoleRefuses(f)
  BY <1>5 DEF ConsoleRefuses
<1>6. CASE Hello(f)
  <2>1. f.session # 0
    BY <1>6 DEF Hello, Proper
  <2>2. pendingFrame.session = 0 /\ ~ft.exit /\ slot.from # "host" /\ ft.active # "linger"
    BY <1>6 DEF Hello
  <2>11. /\ ft.active = "on" /\ ft.session = 0 /\ f.session # 0 /\ f.sequence = 0
         /\ pendingFrame.session = 0 /\ ~ft.exit /\ slot.from # "host"
         /\ ft'.active = ft.active /\ ft'.session = f.session /\ ft'.sequence = 1
         /\ ft'.pending = ft.pending /\ ft'.binary = ft.binary /\ ft'.cleanup = ft.cleanup
         /\ ft'.exit = ft.exit
         /\ UNCHANGED <<pendingFrame, slot, store>>
         /\ lastRequest' = f /\ lastResponse'.op = f.op /\ lastResponse'.session = f.session
         /\ lastResponse'.sequence = f.sequence
    BY <1>6, <2>1, <2>2, HelloFacts, FinalFacts DEF Hello, FtBecomes, TypeOK, Transfer
  <2>21. MailInv'
    BY <2>11
  <2>22. SessionInv'
    BY <2>11
  <2>23. UploadInv'
    BY <2>11
  <2>24. CacheInv'
    BY <2>11
  <2> QED BY <2>21, <2>22, <2>23, <2>24
<1>7. CASE Ignore(f)
  BY <1>7 DEF Ignore
<1>8. CASE AnswerAgain(f)
  BY <1>8 DEF AnswerAgain
<1>9. CASE TurnAway(f)
  BY <1>9 DEF TurnAway
<1>10. CASE AnswerAtOnce(f)
  <2>10. PICK ok \in BOOLEAN : lastResponse' = Final(f, ok)
    BY <1>10 DEF AnswerAtOnce
  <2>1. /\ lastResponse'.op = f.op /\ lastResponse'.session = f.session
        /\ lastResponse'.sequence = f.sequence
    BY <2>10, FinalFacts
  <2>2. ft.active = "on" /\ ft.session # 0 /\ f.session = ft.session /\ f.sequence = ft.sequence
        /\ ~ft.pending /\ ft.cleanup = 0
        /\ UNCHANGED <<slot, store>> /\ pendingFrame' = f /\ lastRequest' = f
    BY <1>10 DEF AnswerAtOnce
  <2>11. /\ ft.active = "on" /\ ft.session # 0 /\ f.session = ft.session /\ f.sequence = ft.sequence
         /\ ~ft.pending /\ ft.cleanup = 0 /\ slot.from = "none"
         /\ ft'.active = ft.active /\ ft'.session = ft.session /\ ft'.sequence = ft.sequence + 1
         /\ ft'.pending = ft.pending /\ ft'.binary /\ ft'.cleanup = ft.cleanup /\ ft'.exit = ft.exit
         /\ UNCHANGED <<slot, store>> /\ pendingFrame' = f
         /\ lastRequest' = f /\ lastResponse'.op = f.op /\ lastResponse'.session = f.session
         /\ lastResponse'.sequence = f.sequence
    BY <1>10, <2>1, <2>2, EmptySlot, AnswerAtOnceFacts DEF FtBecomes
  <2>21. MailInv'
    BY <2>11
  <2>22. SessionInv'
    BY <2>11
  <2>23. UploadInv'
    BY <2>11
  <2>24. CacheInv'
    BY <2>11
  <2> QED BY <2>21, <2>22, <2>23, <2>24
<1>11. CASE Exit(f)
  <2>11. /\ ft.active = "on" /\ ft.session # 0 /\ f.session = ft.session /\ f.sequence = ft.sequence
         /\ f.op = "EXIT" /\ ~ft.pending /\ slot.from = "none"
         /\ ft'.active = ft.active /\ ft'.session = ft.session /\ ft'.sequence = ft.sequence
         /\ ft'.pending = ft.pending /\ ft'.binary /\ ft'.cleanup = 1 /\ ft'.exit
         /\ UNCHANGED <<slot, store, lastRequest, lastResponse>> /\ pendingFrame' = f
    BY <1>11, ExitFacts DEF Exit, FtBecomes, SlotIdle
  <2>21. MailInv'
    BY <2>11
  <2>22. SessionInv'
    BY <2>11
  <2>23. UploadInv'
    BY <2>11
  <2>24. CacheInv'
    BY <2>11
  <2> QED BY <2>21, <2>22, <2>23, <2>24
<1>12. CASE Submit(f)
  BY <1>12, SubmitFacts DEF Submit, FtBecomes, SlotBecomes
<1> QED BY <1>2, <1>3, <1>4, <1>5, <1>6, <1>7, <1>8, <1>9, <1>10, <1>11, <1>12

LEMMA DeviceTasksLocal ==
  Typed /\ Local /\ (Poll \/ StorageTask \/ MountAgain \/ PowerCut \/ Lose) => Local'
<1> SUFFICES ASSUME Typed, Local, Poll \/ StorageTask \/ MountAgain \/ PowerCut \/ Lose
             PROVE  Local'
  OBVIOUS
<1> USE FlagTypes, NoFrameFacts, NoAnswerFacts DEF Typed, Local
<1> USE DEF hostVars, lineVars, deviceVars, storeVars
<1> USE DEF MailInv, SessionInv, UploadInv, CacheInv
<1>0. pendingFrame \in Frames
  BY DEF TypeOK
<1>1. CASE CompleteBinary
  <2>11. /\ slot.from = "host" /\ slot.state = "COMPLETE" /\ ft.pending
         /\ ft.cleanup = 0 /\ ~ft.exit
         /\ ft'.active = ft.active /\ ft'.session = ft.session /\ ft'.sequence = ft.sequence + 1
         /\ ~ft'.pending /\ ft'.binary = ft.binary /\ ft'.cleanup = ft.cleanup /\ ft'.exit = ft.exit
         /\ slot' = SlotIdle /\ slot'.state = "IDLE" /\ slot'.from = "none"
         /\ UNCHANGED <<pendingFrame, store>>
         /\ lastRequest' = pendingFrame /\ lastResponse'.op = pendingFrame.op
         /\ lastResponse'.session = pendingFrame.session
         /\ lastResponse'.sequence = pendingFrame.sequence
    <3>1. /\ slot.state = "COMPLETE" /\ ft.pending /\ ft.binary /\ ft.cleanup # 2
          /\ UNCHANGED <<pendingFrame, store>> /\ slot' = SlotIdle
          /\ lastRequest' = pendingFrame /\ lastResponse' = Final(pendingFrame, slot.ok)
      BY <1>1 DEF CompleteBinary, TakeResult
    <3>2. ft.cleanup = 0 /\ ~ft.exit /\ slot.from = "host"
      BY <3>1 DEF TypeOK, Transfer
    <3>3. /\ lastResponse'.op = pendingFrame.op /\ lastResponse'.session = pendingFrame.session
          /\ lastResponse'.sequence = pendingFrame.sequence
      BY <1>0, <3>1, FinalFacts
    <3>4. slot'.state = "IDLE" /\ slot'.from = "none"
      BY <3>1 DEF SlotIdle
    <3> QED BY <1>1, <3>1, <3>2, <3>3, <3>4, CompleteBinaryFacts DEF FtBecomes
  <2>21. MailInv'
    BY <2>11
  <2>22. SessionInv'
    BY <2>11
  <2>23. UploadInv'
    BY <2>11
  <2>24. CacheInv'
    BY <2>11
  <2> QED BY <2>21, <2>22, <2>23, <2>24
<1>2. CASE CompleteText
  BY <1>2, CompleteTextFacts DEF CompleteText, FtBecomes, SlotBecomes
<1>3. CASE FinishCleanup
  <2>1. UNCHANGED <<hostVars, toDevice, store, disk, executed, cuts, ask>>
        /\ ft.pending /\ slot.state = "COMPLETE" /\ ft.cleanup = 2
    BY <1>3 DEF FinishCleanup, TakeResult
  <2>2. slot' = SlotIdle /\ slot'.state = "IDLE" /\ slot'.from = "none" /\ store' = store
        /\ slot.from = "cleanup"
    BY <1>3, <2>1, FinishCleanupFacts DEF SlotBecomes
  <2>3. CASE ft.exit
    <3>1. /\ ft'.active = "linger" /\ ft'.session = ft.session /\ ft'.sequence = ft.sequence + 1
          /\ ~ft'.pending /\ ft'.cleanup = 0 /\ ~ft'.exit /\ ft.session # 0
          /\ pendingFrame' = pendingFrame /\ lastRequest' = pendingFrame
          /\ lastResponse'.op = pendingFrame.op /\ lastResponse'.session = pendingFrame.session
          /\ lastResponse'.sequence = pendingFrame.sequence
      <4>1. /\ FtBecomes("linger", ft.session, ft.sequence + 1, FALSE, FALSE, 0, FALSE)
            /\ lastRequest' = pendingFrame /\ lastResponse' = Final(pendingFrame, slot.ok)
            /\ pendingFrame' = pendingFrame
        BY <1>3, <2>3, FinishCleanupFacts
      <4>2. /\ lastResponse'.op = pendingFrame.op /\ lastResponse'.session = pendingFrame.session
            /\ lastResponse'.sequence = pendingFrame.sequence
        BY <1>0, <4>1, FinalFacts
      <4> QED BY <2>3, <4>1, <4>2 DEF FtBecomes
    <3> QED BY <2>1, <2>2, <2>3, <3>1
  <2>4. CASE ~ft.exit
    <3>1. /\ ft'.active = "off" /\ ft'.session = 0 /\ ~ft'.pending /\ ft'.cleanup = 0 /\ ~ft'.exit
          /\ pendingFrame' = NoFrame /\ lastRequest' = NoFrame /\ lastResponse' = NoAnswer
      BY <1>3, <2>4, FinishCleanupFacts, ForgetFacts DEF FtBecomes
    <3> QED BY <2>1, <2>2, <3>1
  <2> QED BY <2>3, <2>4
<1>4. CASE Progress
  BY <1>4 DEF Progress
<1>5. CASE LingerExpires
  BY <1>5, OffFacts, ForgetFacts DEF LingerExpires, FtBecomes
<1>6. CASE StartCleanup
  BY <1>6, StartCleanupFacts DEF StartCleanup, FtBecomes, SlotBecomes
<1>7. CASE StorageTask
  <2>1. PICK o :
           /\ CallFacts(store, disk, slot.request, o)
           /\ store' = o.store /\ disk' = o.disk
           /\ SlotBecomes(IF o.deferred THEN "RUNNING" ELSE "COMPLETE", slot.request, slot.from, o.ok)
           /\ executed' = IF slot.from = "host" /\ ~o.deferred
                          THEN executed \cup {Final(slot.request, o.ok)} ELSE executed
           /\ AskBecomes(ask.target, ask.told, ask.applied \/ (slot.from = "host" /\ o.effect))
    BY <1>7, StorageTaskFacts
  <2>2. UNCHANGED <<hostVars, lineVars, deviceVars, cuts>>
        /\ slot.state \in {"PENDING", "RUNNING"}
    BY <1>7 DEF StorageTask
  <2>3. slot'.state # "IDLE" /\ (slot'.state = "RUNNING" <=> o.deferred)
        /\ slot'.request = slot.request /\ slot'.from = slot.from
    BY <2>1 DEF SlotBecomes
  <2>4. MailInv' /\ SessionInv' /\ CacheInv'
    BY <2>2, <2>3
  <2>5. /\ store'.upload => store.upload \/ slot.request.op = "BEGIN"
        /\ slot.request.op = "CANCEL" => ~store'.upload
        /\ o.deferred <=> store'.committing
        /\ o.deferred => slot.request.op = "COMMIT" /\ store'.upload
    BY <2>1, Zenon DEF CallFacts
  <2>6. slot.from \in {"host", "cleanup", "text"}
    BY <2>2 DEF TypeOK, Mailbox
  <2>7. UploadInv'
    BY <2>2, <2>3, <2>5, <2>6
  <2> QED BY <2>4, <2>7
<1>8. CASE MountAgain
  <2>1. ~store'.upload /\ ~store'.committing
    BY <1>8, RemountFacts DEF MountAgain, Dead, TypeOK
  <2> QED BY <1>8, <2>1 DEF MountAgain
<1>9. CASE PowerCut
  <2>1. ~store'.upload /\ ~store'.committing
    BY <1>9, RemountFacts DEF PowerCut, Dead, TypeOK
  <2>11. /\ ft'.active = "off" /\ ft'.session = 0 /\ ~ft'.pending /\ ft'.cleanup = 0 /\ ~ft'.exit
         /\ pendingFrame' = NoFrame /\ lastRequest' = NoFrame /\ lastResponse' = NoAnswer
         /\ slot' = SlotIdle /\ slot'.state = "IDLE" /\ slot'.from = "none"
         /\ ~store'.upload /\ ~store'.committing
    BY <1>9, <2>1, OffFacts, SlotIdleFacts, ForgetFacts DEF PowerCut, FtBecomes, SlotBecomes
  <2>21. MailInv'
    BY <2>11
  <2>22. SessionInv'
    BY <2>11
  <2>23. UploadInv'
    BY <2>11
  <2>24. CacheInv'
    BY <2>11
  <2> QED BY <2>21, <2>22, <2>23, <2>24
<1>10. CASE Lose
  BY <1>10 DEF Lose
<1> QED BY <1>1, <1>2, <1>3, <1>4, <1>5, <1>6, <1>7, <1>8, <1>9, <1>10 DEF Poll

LEMMA HostFrame == Host => UNCHANGED <<deviceVars, slot, store, disk, cuts>>
<1>1. \A j \in Jobs : Start(j) => UNCHANGED <<deviceVars, slot, store, disk, cuts>>
  BY DEF Start, deviceVars
<1>2. Answered => UNCHANGED <<deviceVars, slot, store, disk, cuts>>
  BY Zenon DEF Answered, storeVars
<1> QED BY <1>1, <1>2
    DEF Host, Type, Entered, Skip, Retry, GiveUp, storeVars, deviceVars

LEMMA HostActsLocal == Local /\ Host => Local'
BY HostFrame DEF Local, MailInv, SessionInv, UploadInv, CacheInv, deviceVars

-----------------------------------------------------------------------------
(* The order of the line, and that a session is bound once *)

LEMMA TailOrder ==
  ASSUME NEW q \in Seq(Frames), q # <<>>
  PROVE  /\ \A last : OrderedLine(q, last) => OrderedLine(Tail(q), last)
         /\ \A s : EnterAbove(q, s) => EnterAbove(Tail(q), s)
         /\ EnterWaits(Tail(q)) => EnterWaits(q)
<1>1. \A i \in DOMAIN Tail(q) : i \in Nat /\ i >= 1 /\ i + 1 \in DOMAIN q /\ Tail(q)[i] = q[i + 1]
  BY TailFacts
<1>2. \A last : OrderedLine(q, last) => OrderedLine(Tail(q), last)
  <2> SUFFICES ASSUME NEW last, OrderedLine(q, last),
                      NEW i \in DOMAIN Tail(q), NEW j \in DOMAIN Tail(q),
                      i < j, Tail(q)[i].session # 0
               PROVE  /\ Tail(q)[j].session # 0 => Tail(q)[i].session <= Tail(q)[j].session
                      /\ Tail(q)[j].op = "ENTER" =>
                           /\ Tail(q)[i].session < last
                           /\ \A k \in DOMAIN Tail(q) : j < k /\ Tail(q)[k].session # 0
                                => Tail(q)[i].session < Tail(q)[k].session
    BY DEF OrderedLine
  <2>1. /\ i + 1 \in DOMAIN q /\ j + 1 \in DOMAIN q /\ i + 1 < j + 1
        /\ Tail(q)[i] = q[i + 1] /\ Tail(q)[j] = q[j + 1]
    BY <1>1
  <2>2. \A k \in DOMAIN Tail(q) : j < k => k + 1 \in DOMAIN q /\ j + 1 < k + 1 /\ Tail(q)[k] = q[k + 1]
    BY <1>1
  <2> QED BY <2>1, <2>2 DEF OrderedLine
<1>3. \A s : EnterAbove(q, s) => EnterAbove(Tail(q), s)
  BY <1>1 DEF EnterAbove
<1>4. EnterWaits(Tail(q)) => EnterWaits(q)
  BY <1>1 DEF EnterWaits
<1> QED BY <1>2, <1>3, <1>4

LEMMA EmptyOrder ==
  /\ \A last : OrderedLine(<<>>, last)
  /\ \A s : EnterAbove(<<>>, s)
  /\ ~EnterWaits(<<>>)
BY EmptyFacts DEF OrderedLine, EnterAbove, EnterWaits

LEMMA SentOrder ==
  ASSUME NEW q \in Seq(Frames), NEW g \in Frames, NEW last \in Nat,
         OrderedLine(q, last), \A f \in Members(q) : f.session <= last,
         g.session # 0 => g.session = last /\ g.op # "ENTER",
         g.op = "ENTER" => \A f \in Members(q) : f.session < last
  PROVE  /\ OrderedLine(Sent(q, g), last)
         /\ \A s : EnterAbove(q, s) /\ (g.session # 0 /\ EnterWaits(q) => s < g.session)
                     => EnterAbove(Sent(q, g), s)
         /\ EnterWaits(Sent(q, g)) => EnterWaits(q) \/ g.op = "ENTER"
<1> DEFINE r == Append(q, g)
<1>1. CASE Sent(q, g) = q
  BY <1>1
<1>2. CASE Sent(q, g) = r
  <2>1. /\ DOMAIN r = 1..(Len(q) + 1) /\ DOMAIN q = 1..Len(q) /\ Len(q) \in Nat
        /\ \A i \in DOMAIN q : r[i] = q[i]
        /\ r[Len(q) + 1] = g
    BY AppendFacts
  <2> HIDE DEF r
  <2>2. \A i \in DOMAIN q : q[i] \in Members(q) /\ q[i].session \in Nat
    <3>1. \A i \in DOMAIN q : q[i] \in Frames
      BY <2>1
    <3>2. \A f \in Frames : f.session \in Nat
      BY DEF Frames
    <3> QED BY <3>1, <3>2, Zenon DEF Members
  <2>3. \A i, j \in DOMAIN r : i < j => i \in DOMAIN q /\ r[i] = q[i]
    BY <2>1
  <2>4. \A i \in DOMAIN r : (i \in DOMAIN q /\ r[i] = q[i]) \/ (i = Len(q) + 1 /\ r[i] = g)
    BY <2>1
  <2>5. OrderedLine(r, last)
    <3> SUFFICES ASSUME NEW i \in DOMAIN r, NEW j \in DOMAIN r, i < j, r[i].session # 0
                 PROVE  /\ r[j].session # 0 => r[i].session <= r[j].session
                        /\ r[j].op = "ENTER" =>
                             /\ r[i].session < last
                             /\ \A k \in DOMAIN r : j < k /\ r[k].session # 0
                                  => r[i].session < r[k].session
      BY DEF OrderedLine
    <3>1. i \in DOMAIN q /\ r[i] = q[i] /\ q[i].session <= last /\ q[i].session \in Nat
      BY <2>2, <2>3
    <3>2. CASE j = Len(q) + 1
      <4>1. r[j] = g /\ \A k \in DOMAIN r : ~(j < k)
        BY <2>1, <3>2
      <4> QED BY <2>2, <3>1, <4>1
    <3>3. CASE j \in DOMAIN q /\ r[j] = q[j]
      <4>1. r[j].session # 0 => r[i].session <= r[j].session
        BY <3>1, <3>3 DEF OrderedLine
      <4>2. ASSUME r[j].op = "ENTER"
            PROVE  /\ r[i].session < last
                   /\ \A k \in DOMAIN r : j < k /\ r[k].session # 0 => r[i].session < r[k].session
        <5>1. q[i].session < last
              /\ \A k \in DOMAIN q : j < k /\ q[k].session # 0 => q[i].session < q[k].session
          BY <3>1, <3>3, <4>2 DEF OrderedLine
        <5> QED BY <2>4, <3>1, <5>1
      <4> QED BY <4>1, <4>2
    <3> QED BY <2>4, <3>2, <3>3
  <2>6. ASSUME NEW s, EnterAbove(q, s), g.session # 0 /\ EnterWaits(q) => s < g.session
        PROVE  EnterAbove(r, s)
    <3> SUFFICES ASSUME NEW i \in DOMAIN r, NEW j \in DOMAIN r,
                        i < j, r[i].op = "ENTER", r[j].session # 0
                 PROVE  s < r[j].session
      BY DEF EnterAbove
    <3>1. i \in DOMAIN q /\ q[i].op = "ENTER"
      BY <2>3
    <3> QED BY <2>4, <2>6, <3>1 DEF EnterAbove, EnterWaits
  <2>7. EnterWaits(r) => EnterWaits(q) \/ g.op = "ENTER"
    BY <2>4 DEF EnterWaits
  <2> QED BY <1>2, <2>5, <2>6, <2>7
<1> QED BY <1>1, <1>2, SentFacts

(* What the frame at the head says about those behind it.                   *)
LEMMA HeadOrder ==
  ASSUME NEW q \in Seq(Frames), q # <<>>, NEW last, OrderedLine(q, last)
  PROVE  /\ Head(q).session # 0 =>
              /\ \A f \in Members(Tail(q)) : f.session # 0 => Head(q).session <= f.session
              /\ EnterAbove(Tail(q), Head(q).session)
              /\ EnterWaits(Tail(q)) => Head(q).session < last
         /\ \A s : EnterAbove(q, s) /\ Head(q).op = "ENTER" =>
              \A f \in Members(Tail(q)) : f.session # 0 => s < f.session
<1>1. /\ 1 \in DOMAIN q /\ q[1] = Head(q)
      /\ \A i \in DOMAIN Tail(q) : i \in Nat /\ 1 < i + 1 /\ i + 1 \in DOMAIN q /\ Tail(q)[i] = q[i + 1]
  BY TailFacts
<1>2. \A f \in Members(Tail(q)) : \E i \in DOMAIN q : 1 < i /\ f = q[i]
  BY <1>1 DEF Members
<1>3. ASSUME Head(q).session # 0
      PROVE  /\ \A f \in Members(Tail(q)) : f.session # 0 => Head(q).session <= f.session
             /\ EnterAbove(Tail(q), Head(q).session)
             /\ EnterWaits(Tail(q)) => Head(q).session < last
  <2>1. \A j \in DOMAIN q : 1 < j =>
          /\ q[j].session # 0 => Head(q).session <= q[j].session
          /\ q[j].op = "ENTER" =>
               /\ Head(q).session < last
               /\ \A k \in DOMAIN q : j < k /\ q[k].session # 0 => Head(q).session < q[k].session
    BY <1>1, <1>3 DEF OrderedLine
  <2>2. EnterAbove(Tail(q), Head(q).session)
    <3> SUFFICES ASSUME NEW i \in DOMAIN Tail(q), NEW j \in DOMAIN Tail(q),
                        i < j, Tail(q)[i].op = "ENTER", Tail(q)[j].session # 0
                 PROVE  Head(q).session < Tail(q)[j].session
      BY DEF EnterAbove
    <3>1. i + 1 \in DOMAIN q /\ j + 1 \in DOMAIN q /\ 1 < i + 1 /\ i + 1 < j + 1
          /\ Tail(q)[i] = q[i + 1] /\ Tail(q)[j] = q[j + 1]
      BY <1>1
    <3> QED BY <2>1, <3>1
  <2>3. EnterWaits(Tail(q)) => Head(q).session < last
    BY <1>1, <2>1 DEF EnterWaits
  <2> QED BY <1>2, <2>1, <2>2, <2>3
<1>4. ASSUME NEW s, EnterAbove(q, s), Head(q).op = "ENTER"
      PROVE  \A f \in Members(Tail(q)) : f.session # 0 => s < f.session
  BY <1>1, <1>2, <1>4 DEF EnterAbove
<1> QED BY <1>3, <1>4

(* A step of the device that opens no session.                              *)
LEMMA QuietOrder ==
  ASSUME Typed, OrderInv, BoundInv, host' = host,
         \/ toDevice' \in {toDevice, <<>>}
         \/ toDevice # <<>> /\ toDevice' = Tail(toDevice),
         Unbound' => Unbound, ft'.session \in {0, ft.session},
         \A e \in executed' : e \in executed \/ e.session \in {0, ft.session},
         \A m \in Heard' : m \in Heard \/ m.session \in {0, ft.session}
  PROVE  OrderInv' /\ BoundInv'
<1>0. toDevice \in Seq(Frames)
  BY DEF Typed, TypeOK
<1>1. /\ \A last : OrderedLine(toDevice, last) => OrderedLine(toDevice', last)
      /\ \A s : EnterAbove(toDevice, s) => EnterAbove(toDevice', s)
      /\ EnterWaits(toDevice') => EnterWaits(toDevice)
      /\ Line' \subseteq Line
  <2>1. CASE toDevice' = toDevice
    BY <2>1 DEF Line
  <2>2. CASE toDevice' = <<>>
    BY <2>2, EmptyOrder, EmptyFacts DEF Line
  <2>3. CASE toDevice # <<>> /\ toDevice' = Tail(toDevice)
    <3>1. Line' \subseteq Line
      BY <1>0, <2>3, TailFacts DEF Line
    <3> QED BY <1>0, <2>3, <3>1, TailOrder
  <2> QED BY <2>1, <2>2, <2>3
<1>2. OrderInv'
  BY <1>1 DEF OrderInv
<1>3. ASSUME NEW s \in Nat, Bound(s)'
      PROVE  Closed(s)'
  <2>1. Bound(s)
    BY <1>1, <1>3 DEF Bound
  <2>2. Closed(s)
    BY <2>1 DEF BoundInv
  <2> QED BY <1>1, <2>2 DEF Closed
<1> QED BY <1>2, <1>3 DEF BoundInv

LEMMA EnterOrder ==
  ASSUME Typed, OrderInv, BoundInv, toDevice # <<>>, toDevice' = Tail(toDevice),
         Enter(Head(toDevice))
  PROVE  OrderInv' /\ BoundInv'
<1> DEFINE f == Head(toDevice)
<1>0. toDevice \in Seq(Frames)
  BY DEF Typed, TypeOK
<1>1. f \in Frames /\ f.op = "ENTER" /\ f.session = 0 /\ Line' \subseteq Line
  BY ReceiveFacts DEF Enter, Proper
<1>2. /\ \A last : OrderedLine(toDevice, last) => OrderedLine(toDevice', last)
      /\ \A s : EnterAbove(toDevice, s) => EnterAbove(toDevice', s)
      /\ EnterWaits(toDevice') => EnterWaits(toDevice)
  BY <1>0, TailOrder
<1>3. EnterWaits(toDevice)
  BY <1>0, <1>1, TailFacts DEF EnterWaits
<1>4. OrderInv'
  BY <1>2 DEF OrderInv, Enter, hostVars
<1>5. host' = host /\ executed' = executed /\ ft'.session = 0
  BY OnFacts DEF Enter, hostVars, storeVars, FtBecomes
<1>6. \A m \in Heard' : m \in Heard \/ m.session = 0
  <2>1. Final(f, TRUE) \in Responses /\ Final(f, TRUE).session = 0
    BY <1>1, FinalFacts
  <2> QED BY <2>1, ReplyFacts DEF Enter, Heard, Typed, TypeOK
<1>7. ASSUME NEW s \in Nat, Bound(s)'
      PROVE  Closed(s)'
  <2>1. Bound(s)
    BY <1>1, <1>5, <1>6, <1>7 DEF Bound
  <2>2. Closed(s)
    BY <2>1 DEF BoundInv
  <2>3. \A g \in Line' : g.session # 0 => s < g.session
    BY <1>0, <1>1, <2>2, HeadOrder DEF Closed, OrderInv, Line
  <2> QED BY <1>1, <1>2, <1>3, <1>5, <2>2, <2>3 DEF Closed
<1> QED BY <1>4, <1>7 DEF BoundInv

LEMMA HelloOrder ==
  ASSUME Typed, OrderInv, BoundInv, toDevice # <<>>, toDevice' = Tail(toDevice),
         Hello(Head(toDevice))
  PROVE  OrderInv' /\ BoundInv'
<1> DEFINE f == Head(toDevice)
<1>0. toDevice \in Seq(Frames) /\ host.session \in Nat
  BY FlagTypes DEF Typed, TypeOK
<1>1. /\ f \in Frames /\ f \in Line /\ f.session # 0 /\ f.session <= host.session
      /\ f.session \in 0..Sessions /\ f.session \in Nat /\ Line' \subseteq Line
  <2>1. f \in Frames /\ f \in Line /\ Proper(f) /\ f.session \in 0..Sessions /\ Line' \subseteq Line
    BY ReceiveFacts
  <2> QED BY <2>1 DEF Hello, Proper, Frames
<1>2. /\ \A last : OrderedLine(toDevice, last) => OrderedLine(toDevice', last)
      /\ \A s : EnterAbove(toDevice, s) => EnterAbove(toDevice', s)
      /\ EnterWaits(toDevice') => EnterWaits(toDevice)
  BY <1>0, TailOrder
<1>3. Unbound /\ ft.session = 0
  BY DEF Hello, Unbound
<1>4. OrderInv'
  BY <1>2 DEF OrderInv, Hello, hostVars
<1>5. host' = host /\ executed' = executed /\ ft'.session = f.session /\ ~Unbound'
  <2>1. ft'.session = f.session
    BY <1>1, HelloFacts DEF FtBecomes, Typed
  <2> QED BY <1>1, <2>1 DEF Hello, hostVars, storeVars, Unbound
<1>6. \A m \in Heard' : m \in Heard \/ m.session = f.session
  <2>1. Final(f, TRUE) \in Responses /\ Final(f, TRUE).session = f.session
    BY <1>1, FinalFacts
  <2> QED BY <2>1, ReplyFacts DEF Hello, Heard, Typed, TypeOK
<1>7. ASSUME NEW s \in Nat, Bound(s)', s # f.session
      PROVE  Closed(s)'
  <2>1. Bound(s)
    BY <1>1, <1>5, <1>6, <1>7 DEF Bound
  <2>2. Closed(s)
    BY <2>1 DEF BoundInv
  <2>3. s < f.session
    BY <1>1, <1>3, <2>2 DEF Closed
  <2> QED BY <1>1, <1>2, <1>3, <1>5, <2>2, <2>3 DEF Closed
<1>8. ASSUME NEW s \in Nat, s = f.session
      PROVE  Closed(s)'
  <2>1. /\ \A g \in Line' : g.session # 0 => f.session <= g.session
        /\ EnterAbove(toDevice', f.session)
        /\ EnterWaits(toDevice') => f.session < host.session
    BY <1>0, <1>1, HeadOrder DEF OrderInv, Line
  <2>2. host.phase = "enter" => f.session < host.session
    <3>1. host.phase = "enter" => \A g \in Line : g.session < host.session
      BY DEF Typed, HostInv
    <3> QED BY <1>1, <3>1
  <2> QED BY <1>0, <1>1, <1>5, <1>8, <2>1, <2>2 DEF Closed
<1> QED BY <1>4, <1>7, <1>8 DEF BoundInv

(* A host that sends a frame of its session.                                *)
LEMMA SendOrder ==
  ASSUME Typed, OrderInv, BoundInv, NEW g \in Frames, toDevice' = Sent(toDevice, g),
         ft' = ft, executed' = executed, Members(toHost') \subseteq Heard,
         HostBecomes("wait", host.session, g), g.session = host.session,
         g.session # 0, g.op # "ENTER",
         g.op # "HELLO" => Bound(host.session)
  PROVE  OrderInv' /\ BoundInv'
<1>0. /\ toDevice \in Seq(Frames) /\ host.session \in Nat
      /\ \A f \in Members(toDevice) : f.session <= host.session
  BY FlagTypes DEF Typed, TypeOK, DataInv, Proper, Line
<1>1. /\ OrderedLine(toDevice', host.session)
      /\ \A s : EnterAbove(toDevice, s) /\ (g.session # 0 /\ EnterWaits(toDevice) => s < g.session)
                  => EnterAbove(toDevice', s)
      /\ EnterWaits(toDevice') => EnterWaits(toDevice)
  BY <1>0, SentOrder DEF OrderInv
<1>2. Line' \subseteq Line \cup {g} /\ host'.session = host.session /\ host'.phase = "wait"
      /\ host'.frame = g
  BY <1>0, SentFacts DEF Line, HostBecomes
<1>3. OrderInv'
  BY <1>1, <1>2 DEF OrderInv
<1>4. ASSUME NEW s \in Nat, Bound(s)'
      PROVE  Closed(s)'
  <2>1. Bound(s)
    BY <1>2, <1>4 DEF Bound, Heard
  <2>2. Closed(s)
    BY <2>1 DEF BoundInv
  <2>3. Unbound' <=> Unbound
    BY DEF Unbound
  <2>4. EnterAbove(toDevice', s)
    BY <1>1, <2>2 DEF Closed
  <2> QED BY <1>0, <1>1, <1>2, <2>2, <2>3, <2>4 DEF Closed
<1> QED BY <1>3, <1>4 DEF BoundInv

LEMMA HostActsOrder == Typed /\ OrderInv /\ BoundInv /\ Host => OrderInv' /\ BoundInv'
<1> SUFFICES ASSUME Typed, OrderInv, BoundInv, Host PROVE OrderInv' /\ BoundInv'
  OBVIOUS
<1>0. /\ toDevice \in Seq(Frames) /\ toHost \in Seq(Responses) /\ host.session \in Nat
      /\ \A f \in Members(toDevice) : f.session <= host.session /\ f.session \in Nat
      /\ TypeOK /\ HostInv
  <2>1. Members(toDevice) \subseteq Frames
    BY MembersType DEF Typed, TypeOK
  <2> QED BY <2>1, FlagTypes DEF Typed, TypeOK, DataInv, Proper, Line, Frames
<1>00. ft' = ft
  BY HostFrame DEF deviceVars
<1>1. CASE Type
  <2>1. PICK at \in {0, 1} : toDevice' = Sent(toDevice, Request("TEXT", 0, 0, at, <<>>))
    BY <1>1 DEF Type
  <2> DEFINE g == Request("TEXT", 0, 0, at, <<>>)
  <2>2. g \in Frames /\ g.op = "TEXT" /\ g.session = 0
    <3>1. <<>> \in Data
      BY DEF Data, Content
    <3> QED BY <3>1 DEF Request, Frames, Ops
  <2>3. toDevice' = Sent(toDevice, g)
    BY <2>1
  <2> HIDE DEF g
  <2>4. /\ OrderedLine(toDevice', host.session)
        /\ \A s : EnterAbove(toDevice, s) => EnterAbove(toDevice', s)
        /\ EnterWaits(toDevice') => EnterWaits(toDevice)
    BY <1>0, <2>2, <2>3, SentOrder DEF OrderInv
  <2>5. Line' \subseteq Line \cup {g} /\ host' = host /\ Heard' = Heard /\ executed' = executed
    BY <1>0, <1>1, <2>2, <2>3, SentFacts DEF Line, Type, hostVars, storeVars, Heard
  <2>6. OrderInv'
    BY <2>4, <2>5 DEF OrderInv
  <2>7. ASSUME NEW s \in Nat, Bound(s)'
        PROVE  Closed(s)'
    <3>1. Bound(s)
      BY <1>00, <2>2, <2>5, <2>7 DEF Bound
    <3>2. Closed(s)
      BY <3>1 DEF BoundInv
    <3> QED BY <1>00, <2>2, <2>4, <2>5, <3>2 DEF Closed, Unbound
  <2> QED BY <2>6, <2>7 DEF BoundInv
<1>2. ASSUME NEW j \in Jobs, Start(j)
      PROVE  OrderInv' /\ BoundInv'
  <2> DEFINE g == Request("ENTER", 0, 0, 0, <<>>)
  <2>1. HostBecomes("enter", host.session + 1, NoFrame)
        /\ g \in Frames /\ toDevice' = Sent(toDevice, g)
    BY <1>0, <1>2, StartFacts
  <2>2. g.session = 0 /\ g.op = "ENTER"
    BY RequestFacts
  <2> HIDE DEF g
  <2>3. OrderedLine(toDevice, host.session + 1)
    <3>1. \A i \in DOMAIN toDevice : toDevice[i].session \in Nat
      BY <1>0 DEF Members
    <3> QED BY <1>0, <3>1 DEF OrderedLine, OrderInv
  <2>4. /\ OrderedLine(toDevice', host.session + 1)
        /\ \A s : EnterAbove(toDevice, s) => EnterAbove(toDevice', s)
    <3>1. \A f \in Members(toDevice) : f.session <= host.session + 1 /\ f.session < host.session + 1
      BY <1>0
    <3>2. host.session + 1 \in Nat
      BY <1>0
    <3> QED BY <1>0, <2>1, <2>2, <2>3, <3>1, <3>2, SentOrder
  <2>5. /\ Line' \subseteq Line \cup {g} /\ Heard' = Heard /\ executed' = {}
        /\ host'.session = host.session + 1 /\ host'.frame = NoFrame
    BY <1>0, <1>2, <2>1, SentFacts DEF Line, Heard, Start, HostBecomes
  <2>6. OrderInv'
    BY <2>4, <2>5 DEF OrderInv
  <2>7. ASSUME NEW s \in Nat, Bound(s)'
        PROVE  Closed(s)'
    <3>1. Bound(s)
      BY <1>00, <2>2, <2>5, <2>7, NoFrameFacts DEF Bound
    <3>2. Closed(s)
      BY <3>1 DEF BoundInv
    <3>3. s < host'.session
      BY <1>0, <2>5, <3>2 DEF Closed
    <3>4. EnterAbove(toDevice', s)
      BY <2>4, <3>2 DEF Closed
    <3>5. s <= host'.session
      BY <1>0, <2>5, <3>3
    <3> QED BY <1>00, <2>2, <2>5, <3>2, <3>3, <3>4, <3>5 DEF Closed, Unbound
  <2> QED BY <2>6, <2>7 DEF BoundInv
<1>3. CASE Entered
  <2> DEFINE g == Request("HELLO", host.session, 0, 0, <<>>)
  <2>1. g \in Frames /\ HostBecomes("wait", host.session, g) /\ toDevice' = Sent(toDevice, g)
    BY <1>0, <1>3, EnteredFacts
  <2>2. g.session = host.session /\ g.op = "HELLO" /\ host.session # 0
    BY <1>0, <1>3, RequestFacts DEF Entered, HostInv
  <2> HIDE DEF g
  <2>3. executed' = executed /\ Members(toHost') \subseteq Heard
    BY <1>0, <1>3, TailFacts DEF Entered, storeVars, Heard
  <2> QED BY <1>00, <2>1, <2>2, <2>3, SendOrder
<1>4. CASE Skip
  <2>1. /\ host' = host /\ toDevice' = toDevice /\ executed' = executed
        /\ \A m \in Heard' : m \in Heard
    BY <1>0, <1>4, TailFacts DEF Skip, hostVars, storeVars, Heard
  <2> QED BY <1>00, <2>1, QuietOrder DEF Unbound
<1>5. CASE Retry
  <2>1. /\ host.frame \in Frames /\ host.frame.session = host.session /\ host.session # 0
        /\ host.frame.op # "ENTER"
    BY <1>0, <1>5, FlagTypes DEF Retry, HostInv, Typed, DataInv, Proper
  <2>2. HostBecomes("wait", host.session, host.frame)
    BY <1>0, <1>5 DEF Retry, hostVars, HostBecomes, TypeOK
  <2>3. host.frame.op # "HELLO" => Bound(host.session)
    BY <2>1 DEF Bound
  <2>4. toDevice' = Sent(toDevice, host.frame) /\ executed' = executed
        /\ Members(toHost') \subseteq Heard
    BY <1>5 DEF Retry, storeVars, Heard
  <2> QED BY <1>00, <2>1, <2>2, <2>3, <2>4, SendOrder
<1>6. ASSUME HostBecomes("rest", host.session, NoFrame), toHost' = <<>>, toDevice' = toDevice,
             executed' = executed
      PROVE  OrderInv' /\ BoundInv'
  <2>1. Heard' = {} /\ Line' = Line
    BY <1>6, EmptyFacts DEF Heard, Line
  <2>2. host'.session = host.session /\ host'.phase = "rest" /\ host'.frame = NoFrame
    BY <1>6 DEF HostBecomes
  <2>3. OrderInv'
    BY <1>6, <2>2 DEF OrderInv
  <2>4. ASSUME NEW s \in Nat, Bound(s)'
        PROVE  Closed(s)'
    <3>1. Bound(s)
      BY <1>00, <1>6, <2>1, <2>2, <2>4, NoFrameFacts DEF Bound
    <3>2. Closed(s)
      BY <3>1 DEF BoundInv
    <3> QED BY <1>00, <1>6, <2>1, <2>2, <3>2 DEF Closed, Unbound
  <2> QED BY <2>3, <2>4 DEF BoundInv
<1>7. CASE GiveUp
  <2>1. HostBecomes("rest", host.session, NoFrame)
    BY <1>0, <1>7, RestFacts DEF GiveUp
  <2> QED BY <1>6, <1>7, <2>1 DEF GiveUp, storeVars
<1>8. CASE Answered
  <2>1. executed' = executed
    BY <1>8, Zenon DEF Answered, storeVars
  <2>2. CASE HostBecomes("rest", host.session, NoFrame) /\ toHost' = <<>> /\ toDevice' = toDevice
    BY <1>6, <2>1, <2>2
  <2>3. ASSUME NEW g \in Frames, HostBecomes("wait", host.session, g),
               toDevice' = Sent(toDevice, g), toHost' = Tail(toHost),
               g.session = host.session, g.op \in HostOps
        PROVE  OrderInv' /\ BoundInv'
    <3>1. toHost # <<>> /\ host.phase = "wait" /\ Head(toHost).session = host.session
      BY <1>8, Zenon DEF Answered, Awaited
    <3>2. Head(toHost) \in Heard /\ Members(toHost') \subseteq Heard /\ host.session # 0
      BY <1>0, <2>3, <3>1, TailFacts DEF Heard, HostInv
    <3>3. Bound(host.session)
      BY <3>1, <3>2 DEF Bound
    <3> QED BY <1>00, <2>1, <2>3, <3>2, <3>3, SendOrder DEF HostOps
  <2>4. job \in Jobs /\ host.frame.op \in Ops
    BY <1>0 DEF TypeOK, Client, Frames
  <2>5. NextOp(host.frame, Head(toHost).ok) \in HostOps
    BY <2>4, NextOpFacts
  <2> QED BY <1>0, <1>8, <2>2, <2>3, <2>5, AnsweredFacts
<1> QED BY <1>1, <1>2, <1>3, <1>4, <1>5, <1>7, <1>8 DEF Host

(* What an answer adds to what the host may hear.                           *)
LEMMA Answers ==
  ASSUME Typed, NEW m \in Responses, Reply(m), m.session \in {0, ft.session}
  PROVE  \A r \in Heard' : r \in Heard \/ r.session \in {0, ft.session}
BY ReplyFacts DEF Heard, Typed, TypeOK

LEMMA ReceiveOrder == Typed /\ Local /\ OrderInv /\ BoundInv /\ Receive => OrderInv' /\ BoundInv'
<1> SUFFICES ASSUME Typed, Local, OrderInv, BoundInv, Receive PROVE OrderInv' /\ BoundInv'
  OBVIOUS
<1> DEFINE f == Head(toDevice)
<1>0. toDevice # <<>> /\ toDevice' = Tail(toDevice)
  BY DEF Receive
<1>1. f \in Frames /\ Proper(f) /\ f.op # "none" /\ f.session \in 0..Sessions
  BY <1>0, ReceiveFacts
<1>2. \/ Enter(f) \/ TextCommand(f) \/ ConsoleRefuses(f)
      \/ Hello(f) \/ Ignore(f) \/ AnswerAgain(f) \/ TurnAway(f)
      \/ AnswerAtOnce(f) \/ Exit(f) \/ Submit(f)
  BY DEF Receive
<1>3. CASE Enter(f)
  BY <1>0, <1>3, EnterOrder
<1>6. CASE Hello(f)
  BY <1>0, <1>6, HelloOrder
<1> HIDE DEF f
<1>20. TypeOK
  BY DEF Typed
<1> USE DEF hostVars, deviceVars, storeVars, Ours, New, InTurn, Unbound
<1>4. CASE TextCommand(f)
  <2>1. UNCHANGED <<host, toHost, executed>> /\ ft'.session = ft.session /\ ft'.active = ft.active
    BY <1>4, <1>20, TextCommandFacts DEF TextCommand, FtBecomes
  <2> QED BY <1>0, <2>1, QuietOrder DEF Heard
<1>5. CASE ConsoleRefuses(f)
  BY <1>0, <1>5, QuietOrder DEF ConsoleRefuses, Heard
<1>7. CASE Ignore(f)
  BY <1>0, <1>7, QuietOrder DEF Ignore, Heard
<1>8. CASE AnswerAgain(f)
  <2>1. lastResponse \in Responses /\ lastResponse.session = ft.session
    BY <1>20 DEF TypeOK, Local, CacheInv
  <2> QED BY <1>0, <1>8, <2>1, Answers, QuietOrder DEF AnswerAgain
<1>9. CASE TurnAway(f)
  <2>1. PICK m \in {Busy(f), Final(f, FALSE)} : Reply(m)
    BY <1>9 DEF TurnAway
  <2>2. m \in Responses /\ m.session = ft.session
    BY <1>1, <1>9, <2>1, BusyFacts, FinalFacts DEF TurnAway
  <2> QED BY <1>0, <1>9, <2>1, <2>2, Answers, QuietOrder DEF TurnAway
<1>10. CASE AnswerAtOnce(f)
  <2>1. PICK ok \in BOOLEAN : Reply(Final(f, ok))
    BY <1>10 DEF AnswerAtOnce
  <2>2. Final(f, ok) \in Responses /\ Final(f, ok).session = ft.session
    BY <1>1, <1>10, FinalFacts DEF AnswerAtOnce
  <2>3. ft'.session = ft.session /\ ft'.active = ft.active
    BY <1>1, <1>10, <1>20, AnswerAtOnceFacts DEF FtBecomes
  <2> QED BY <1>0, <1>10, <2>1, <2>2, <2>3, Answers, QuietOrder DEF AnswerAtOnce
<1>11. CASE Exit(f)
  <2>1. ft'.session = ft.session /\ ft'.active = ft.active
    BY <1>1, <1>11, <1>20, ExitFacts DEF FtBecomes
  <2> QED BY <1>0, <1>11, <2>1, QuietOrder DEF Exit, Heard
<1>12. CASE Submit(f)
  <2>1. Busy(f) \in Responses /\ Busy(f).session = ft.session
    BY <1>1, <1>12, BusyFacts DEF Submit
  <2>2. slot.state = "IDLE"
    BY <1>12 DEF Submit, FtBusy, Local, MailInv
  <2>3. ft'.session = ft.session /\ ft'.active = ft.active
    BY <1>1, <1>12, <1>20, <2>2, SubmitFacts DEF FtBecomes
  <2> QED BY <1>0, <1>12, <2>1, <2>3, Answers, QuietOrder DEF Submit
<1> QED BY <1>2, <1>3, <1>4, <1>5, <1>6, <1>7, <1>8, <1>9, <1>10, <1>11, <1>12

LEMMA DeviceTasksOrder ==
  Typed /\ Local /\ OrderInv /\ BoundInv
    /\ (Poll \/ StorageTask \/ MountAgain \/ PowerCut \/ Lose) => OrderInv' /\ BoundInv'
<1> SUFFICES ASSUME Typed, Local, OrderInv, BoundInv,
                    Poll \/ StorageTask \/ MountAgain \/ PowerCut \/ Lose
             PROVE  OrderInv' /\ BoundInv'
  OBVIOUS
<1> USE DEF hostVars, lineVars, deviceVars, storeVars, Unbound
<1>0. /\ TypeOK /\ pendingFrame \in Frames /\ pendingFrame.session \in {0, ft.session}
      /\ slot.ok \in BOOLEAN
  BY FlagTypes DEF Typed, TypeOK, Local, CacheInv
<1>00. /\ Final(pendingFrame, slot.ok) \in Responses
       /\ Final(pendingFrame, slot.ok).session = pendingFrame.session
  BY <1>0, FinalFacts
<1>1. CASE CompleteBinary
  <2>1. ft'.session = ft.session /\ ft'.active = ft.active
    BY <1>0, <1>1, CompleteBinaryFacts DEF FtBecomes
  <2>2. Reply(Final(pendingFrame, slot.ok)) /\ UNCHANGED <<host, toDevice, executed>>
    BY <1>1 DEF CompleteBinary
  <2> QED BY <1>0, <1>00, <2>1, <2>2, Answers, QuietOrder
<1>2. CASE CompleteText
  <2>1. ft'.session = ft.session /\ ft'.active = ft.active
    BY <1>0, <1>2, CompleteTextFacts DEF FtBecomes
  <2> QED BY <1>2, <2>1, QuietOrder DEF CompleteText, Heard
<1>3. CASE FinishCleanup
  <2>1. UNCHANGED <<host, toDevice, executed>>
    BY <1>3 DEF FinishCleanup
  <2>2. CASE ft.exit
    <3>1. ft'.active = "linger" /\ ft'.session = ft.session
      BY <1>0, <1>3, <2>2, FinishCleanupFacts DEF FtBecomes
    <3>2. Reply(Final(pendingFrame, slot.ok)) /\ ft.session # 0
      BY <1>3, <2>2 DEF FinishCleanup, Local, SessionInv
    <3> QED BY <1>0, <1>00, <2>1, <3>1, <3>2, Answers, QuietOrder
  <2>3. CASE ~ft.exit
    <3>1. ft'.active = "off" /\ ft'.session = 0 /\ toHost' = toHost
      BY <1>0, <1>3, <2>3, FinishCleanupFacts DEF FtBecomes
    <3> QED BY <2>1, <3>1, QuietOrder DEF Heard
  <2> QED BY <2>2, <2>3
<1>4. CASE Progress
  <2> DEFINE g == IF ft.cleanup = 2 THEN [pendingFrame EXCEPT !.op = "EXIT"] ELSE pendingFrame
  <2>1. g \in Frames /\ g.session = pendingFrame.session
    BY <1>0 DEF Frames, Ops
  <2>2. Reply(Busy(g)) /\ UNCHANGED <<host, toDevice, ft, executed>>
    BY <1>4, Zenon DEF Progress
  <2> HIDE DEF g
  <2>3. Busy(g) \in Responses /\ Busy(g).session = pendingFrame.session
    BY <2>1, BusyFacts
  <2> QED BY <1>0, <2>2, <2>3, Answers, QuietOrder
<1>5. CASE LingerExpires
  <2>1. ft'.active = "off" /\ ft'.session = 0
    BY <1>5, OffFacts DEF LingerExpires, FtBecomes
  <2> QED BY <1>5, <2>1, QuietOrder DEF LingerExpires, Heard
<1>6. CASE StartCleanup
  <2>1. ft'.session = ft.session /\ ft'.active = ft.active
    BY <1>0, <1>6, StartCleanupFacts DEF FtBecomes
  <2> QED BY <1>6, <2>1, QuietOrder DEF StartCleanup, Heard
<1>7. CASE StorageTask
  <2>1. PICK o :
           /\ CallFacts(store, disk, slot.request, o)
           /\ executed' = IF slot.from = "host" /\ ~o.deferred
                          THEN executed \cup {Final(slot.request, o.ok)} ELSE executed
    BY <1>7, StorageTaskFacts DEF Typed, Local
  <2>2. slot.request \in Frames /\ o.ok \in BOOLEAN
    BY <1>0, <2>1, FlagTypes DEF CallFacts
  <2>3. Final(slot.request, o.ok).session = slot.request.session
    BY <2>2, FinalFacts
  <2>4. \A e \in executed' : e \in executed \/ e.session = ft.session
    BY <2>1, <2>3 DEF Local, MailInv
  <2> QED BY <1>7, <2>4, QuietOrder DEF StorageTask, Heard
<1>8. CASE MountAgain
  BY <1>8, QuietOrder DEF MountAgain, Heard
<1>9. CASE PowerCut
  <2>1. ft'.active = "off" /\ ft'.session = 0
    BY <1>9, OffFacts DEF PowerCut, FtBecomes
  <2> QED BY <1>9, <2>1, QuietOrder DEF PowerCut, Heard
<1>10. CASE Lose
  <2>1. \A m \in Heard' : m \in Heard
    BY <1>0, <1>10, TailFacts DEF Lose, TypeOK, Heard
  <2>2. UNCHANGED <<host, ft, executed>>
    BY <1>10 DEF Lose
  <2>3. toDevice' = toDevice \/ (toDevice # <<>> /\ toDevice' = Tail(toDevice))
    BY <1>10 DEF Lose
  <2> QED BY <2>1, <2>2, <2>3, QuietOrder
<1> QED BY <1>1, <1>2, <1>3, <1>4, <1>5, <1>6, <1>7, <1>8, <1>9, <1>10 DEF Poll

-----------------------------------------------------------------------------
(* Stop-and-wait *)

LEMMA LineSorted ==
  /\ SortedLine(<<>>)
  /\ \A q \in Seq(Frames) : q # <<>> /\ SortedLine(q) =>
       /\ SortedLine(Tail(q))
       /\ \A f \in Members(Tail(q)) :
            f.session # 0 /\ f.session = Head(q).session => Head(q).sequence <= f.sequence
  /\ \A q \in Seq(Frames), g \in Frames :
       /\ SortedLine(q)
       /\ \A f \in Members(q) : f.session # 0 /\ f.session = g.session => f.sequence <= g.sequence
       => SortedLine(Sent(q, g))
<1>1. SortedLine(<<>>)
  BY EmptyFacts DEF SortedLine
<1>2. ASSUME NEW q \in Seq(Frames), q # <<>>, SortedLine(q)
      PROVE  /\ SortedLine(Tail(q))
             /\ \A f \in Members(Tail(q)) :
                  f.session # 0 /\ f.session = Head(q).session => Head(q).sequence <= f.sequence
  <2>1. /\ 1 \in DOMAIN q /\ q[1] = Head(q)
        /\ \A i \in DOMAIN Tail(q) : i \in Nat /\ 1 < i + 1 /\ i + 1 \in DOMAIN q /\ Tail(q)[i] = q[i + 1]
    BY <1>2, TailFacts
  <2>2. SortedLine(Tail(q))
    <3> SUFFICES ASSUME NEW i \in DOMAIN Tail(q), NEW j \in DOMAIN Tail(q), i < j,
                        Tail(q)[i].session # 0, Tail(q)[i].session = Tail(q)[j].session
                 PROVE  Tail(q)[i].sequence <= Tail(q)[j].sequence
      BY DEF SortedLine
    <3>1. i + 1 \in DOMAIN q /\ j + 1 \in DOMAIN q /\ i + 1 < j + 1
          /\ Tail(q)[i] = q[i + 1] /\ Tail(q)[j] = q[j + 1]
      BY <2>1
    <3> QED BY <1>2, <3>1 DEF SortedLine
  <2>3. \A f \in Members(Tail(q)) : \E i \in DOMAIN q : 1 < i /\ f = q[i]
    BY <2>1 DEF Members
  <2> QED BY <1>2, <2>1, <2>2, <2>3 DEF SortedLine
<1>3. ASSUME NEW q \in Seq(Frames), NEW g \in Frames, SortedLine(q),
             \A f \in Members(q) : f.session # 0 /\ f.session = g.session => f.sequence <= g.sequence
      PROVE  SortedLine(Sent(q, g))
  <2> DEFINE r == Append(q, g)
  <2>1. CASE Sent(q, g) = q
    BY <1>3, <2>1
  <2>2. CASE Sent(q, g) = r
    <3>1. /\ DOMAIN r = 1..(Len(q) + 1) /\ DOMAIN q = 1..Len(q) /\ Len(q) \in Nat
          /\ \A i \in DOMAIN q : r[i] = q[i]
          /\ r[Len(q) + 1] = g
      BY AppendFacts
    <3> HIDE DEF r
    <3>2. \A i \in DOMAIN q : q[i] \in Members(q)
      BY Zenon DEF Members
    <3>3. \A i, j \in DOMAIN r : i < j => i \in DOMAIN q /\ r[i] = q[i]
      BY <3>1
    <3>4. \A i \in DOMAIN r : (i \in DOMAIN q /\ r[i] = q[i]) \/ (i = Len(q) + 1 /\ r[i] = g)
      BY <3>1
    <3>5. SortedLine(r)
      BY <1>3, <3>2, <3>3, <3>4 DEF SortedLine
    <3> QED BY <2>2, <3>5
  <2> QED BY <2>1, <2>2, SentFacts
<1> QED BY <1>1, <1>2, <1>3

(* A step of the device sends nothing to itself: what is left to show is what *)
(* it expects, and that the answers it sends lie behind it.                   *)
LEMMA DeviceSequence ==
  ASSUME Typed, SequenceInv, host' = host,
         \/ toDevice' \in {toDevice, <<>>}
         \/ toDevice # <<>> /\ toDevice' = Tail(toDevice),
         \A g \in Line' \cup {host.frame} : g.session # 0 /\ g.session = ft'.session => Expected(g)',
         \A m \in Heard' : m.final /\ m.session # 0 /\ m.session = ft'.session => m.sequence < ft'.sequence
  PROVE  SequenceInv'
<1>0. toDevice \in Seq(Frames)
  BY DEF Typed, TypeOK
<1>1. Line' \subseteq Line /\ SortedLine(toDevice')
  <2>0. SortedLine(toDevice)
    BY DEF SequenceInv
  <2>1. CASE toDevice' = toDevice
    BY <2>0, <2>1 DEF Line
  <2>2. CASE toDevice' = <<>>
    BY <2>2, LineSorted, EmptyFacts DEF Line
  <2>3. CASE toDevice # <<>> /\ toDevice' = Tail(toDevice)
    <3>1. Line' \subseteq Line
      BY <1>0, <2>3, TailFacts DEF Line
    <3> QED BY <1>0, <2>0, <2>3, <3>1, LineSorted
  <2> QED BY <2>1, <2>2, <2>3
<1>2. \A f \in Line' \cup {host'.frame} : f.session # 0 /\ f.session = ft'.session => Expected(f)'
  OBVIOUS
<1>3. \A f, g \in Line' \cup {host'.frame} :
        f.session # 0 /\ f.session = g.session /\ f.sequence = g.sequence => f = g
  BY <1>1 DEF SequenceInv
<1>4. host'.phase = "wait" =>
        \A f \in Line' : f.session = host'.session => f.sequence <= host'.frame.sequence
  BY <1>1 DEF SequenceInv
<1> QED BY <1>1, <1>2, <1>3, <1>4 DEF SequenceInv

LEMMA QuietSequence ==
  ASSUME Typed, SequenceInv, host' = host,
         \/ toDevice' \in {toDevice, <<>>}
         \/ toDevice # <<>> /\ toDevice' = Tail(toDevice),
         \/ ft'.session = 0
         \/ /\ ft'.session = ft.session /\ ft'.sequence = ft.sequence
            /\ InProgress' <=> InProgress
            /\ pendingFrame' = pendingFrame /\ lastRequest' = lastRequest,
         \A m \in Heard' : m \in Heard \/ ~m.final \/ m.session = 0 \/ m.sequence < ft.sequence
  PROVE  SequenceInv'
<1>1. Line' \subseteq Line
  <2>1. CASE toDevice' = toDevice
    BY <2>1 DEF Line
  <2>2. CASE toDevice' = <<>>
    BY <2>2, EmptyFacts DEF Line
  <2>3. CASE toDevice # <<>> /\ toDevice' = Tail(toDevice)
    BY <2>3, TailFacts DEF Line, Typed, TypeOK
  <2> QED BY <2>1, <2>2, <2>3
<1>2. \A g \in Line' \cup {host.frame} : g.session # 0 /\ g.session = ft'.session => Expected(g)'
  BY <1>1 DEF SequenceInv, Expected
<1>3. \A m \in Heard' : m.final /\ m.session # 0 /\ m.session = ft'.session => m.sequence < ft'.sequence
  BY DEF SequenceInv
<1> QED BY <1>2, <1>3, DeviceSequence

(* The request at the head of the line, in turn: no other frame of the session *)
(* is left.                                                                    *)
LEMMA NextInTurn ==
  ASSUME Typed, Local, SequenceInv, toDevice # <<>>, toDevice' = Tail(toDevice),
         InTurn(Head(toDevice))
  PROVE  /\ ~InProgress
         /\ \A g \in Line' \cup {host.frame} : g.session = ft.session => g = Head(toDevice)
<1> DEFINE f == Head(toDevice)
<1>0. /\ toDevice \in Seq(Frames) /\ f \in Frames /\ f \in Line /\ Line' \subseteq Line
      /\ f.session = ft.session /\ f.session # 0 /\ f.sequence = ft.sequence
  BY ReceiveFacts DEF Typed, TypeOK, InTurn, New, Ours
<1>1. ~InProgress
  <2>1. ~ft.pending /\ ft.cleanup = 0
    BY DEF InTurn, FtBusy
  <2>2. slot.from = "none"
    BY <2>1, EmptySlot DEF Local
  <2> QED BY <2>1, <2>2 DEF InProgress, Local, SessionInv
<1>2. \A g \in Line' : g.session = ft.session => f.sequence <= g.sequence
  BY <1>0, LineSorted DEF SequenceInv, Line
<1>3. host.frame.session = ft.session => f.sequence <= host.frame.sequence
  <2>1. host.frame.session = ft.session => host.phase = "wait" /\ host.frame.session = host.session
    BY <1>0, NoFrameFacts DEF Typed, HostInv
  <2> QED BY <1>0, <2>1 DEF SequenceInv
<1>4. ASSUME NEW g \in Line' \cup {host.frame}, g.session = ft.session
      PROVE  g = f
  <2>1. g \in Line \cup {host.frame} /\ g \in Frames
    <3>1. Line \subseteq Frames /\ host.frame \in Frames
      BY MembersType, FlagTypes DEF Typed, TypeOK, Line
    <3> QED BY <1>0, <3>1
  <2>2. g.sequence = ft.sequence \/ g = lastRequest
    BY <1>0, <1>1, <1>4, <2>1 DEF SequenceInv, Expected
  <2>3. g.sequence >= ft.sequence /\ lastRequest.sequence + 1 = ft.sequence
    BY <1>0, <1>2, <1>3, <1>4 DEF Local, CacheInv
  <2>4. g.sequence \in Nat /\ ft.sequence \in Nat
    BY <2>1, FlagTypes DEF Frames, Typed
  <2>5. g.sequence = f.sequence
    BY <1>0, <2>2, <2>3, <2>4
  <2> QED BY <1>0, <1>4, <2>1, <2>5 DEF SequenceInv
<1> QED BY <1>1, <1>4

(* A host that sends what its own invocation or none of the device expects.   *)
LEMMA SendSequence ==
  ASSUME Typed, SequenceInv, NEW g \in Frames, toDevice' = Sent(toDevice, g),
         UNCHANGED <<deviceVars, slot>>, Members(toHost') \subseteq Heard,
         HostBecomes("wait", host.session, g), g.session = host.session,
         g.session = ft.session => Expected(g),
         \A f \in Line : f.session = g.session =>
           f.sequence <= g.sequence /\ (f.sequence = g.sequence => f = g)
  PROVE  SequenceInv'
<1>1. Line' \subseteq Line \cup {g} /\ host'.frame = g /\ host'.session = host.session
  BY SentFacts DEF Typed, TypeOK, Line, HostBecomes
<1>2. SortedLine(toDevice')
  BY LineSorted DEF SequenceInv, Typed, TypeOK, Line
<1>3. UNCHANGED <<ft, slot, pendingFrame, lastRequest>>
  BY DEF deviceVars
<1>4. \A f \in Line' \cup {host'.frame} : f.session # 0 /\ f.session = ft'.session => Expected(f)'
  BY <1>1, <1>3 DEF SequenceInv, Expected, InProgress
<1>5. \A f, h \in Line' \cup {host'.frame} :
        f.session # 0 /\ f.session = h.session /\ f.sequence = h.sequence => f = h
  BY <1>1 DEF SequenceInv
<1>6. \A f \in Line' : f.session = host'.session => f.sequence <= host'.frame.sequence
  <2>1. g.sequence \in Nat
    BY DEF Frames
  <2> QED BY <1>1, <2>1
<1>7. \A m \in Heard' : m.final /\ m.session # 0 /\ m.session = ft'.session => m.sequence < ft'.sequence
  BY <1>3 DEF SequenceInv, Heard
<1> QED BY <1>2, <1>4, <1>5, <1>6, <1>7 DEF SequenceInv

(* A host that sends a line of text or nothing.                               *)
LEMMA TextSequence ==
  ASSUME Typed, SequenceInv, UNCHANGED <<deviceVars, slot>>, Members(toHost') \subseteq Heard,
         host' = host \/ (host'.phase # "wait" /\ host'.frame = NoFrame),
         toDevice' = toDevice
           \/ \E g \in Frames : g.session = 0 /\ toDevice' = Sent(toDevice, g)
  PROVE  SequenceInv'
<1>0. toDevice \in Seq(Frames)
  BY DEF Typed, TypeOK
<1>1. /\ SortedLine(toDevice')
      /\ \A f \in Line' : f \in Line \/ f.session = 0
  <2>1. CASE toDevice' = toDevice
    BY <2>1 DEF SequenceInv, Line
  <2>2. ASSUME NEW g \in Frames, g.session = 0, toDevice' = Sent(toDevice, g)
        PROVE  /\ SortedLine(toDevice')
               /\ \A f \in Line' : f \in Line \/ f.session = 0
    <3>1. Line' \subseteq Line \cup {g}
      BY <1>0, <2>2, SentFacts DEF Line
    <3>2. SortedLine(toDevice')
      BY <1>0, <2>2, LineSorted DEF SequenceInv
    <3> QED BY <2>2, <3>1, <3>2
  <2> QED BY <2>1, <2>2
<1>2. host'.frame = host.frame \/ host'.frame.session = 0
  BY NoFrameFacts
<1>3. UNCHANGED <<ft, slot, pendingFrame, lastRequest>>
  BY DEF deviceVars
<1>4. \A f \in Line' \cup {host'.frame} : f.session # 0 /\ f.session = ft'.session => Expected(f)'
  BY <1>1, <1>2, <1>3 DEF SequenceInv, Expected, InProgress
<1>5. \A f, h \in Line' \cup {host'.frame} :
        f.session # 0 /\ f.session = h.session /\ f.sequence = h.sequence => f = h
  BY <1>1, <1>2 DEF SequenceInv
<1>6. host'.phase = "wait" =>
        \A f \in Line' : f.session = host'.session => f.sequence <= host'.frame.sequence
  <2>1. host'.phase = "wait" => host' = host /\ host.session # 0
    BY DEF Typed, HostInv
  <2> QED BY <1>1, <2>1 DEF SequenceInv
<1>7. \A m \in Heard' : m.final /\ m.session # 0 /\ m.session = ft'.session => m.sequence < ft'.sequence
  BY <1>3 DEF SequenceInv, Heard
<1> QED BY <1>1, <1>4, <1>5, <1>6, <1>7 DEF SequenceInv

LEMMA HostActsSequence ==
  Typed /\ Local /\ OrderInv /\ BoundInv /\ SequenceInv /\ Host => SequenceInv'
<1> SUFFICES ASSUME Typed, Local, BoundInv, SequenceInv, Host PROVE SequenceInv'
  OBVIOUS
<1>0. /\ TypeOK /\ HostInv /\ toHost \in Seq(Responses)
      /\ host.session \in Nat /\ host.frame \in Frames /\ ft.session \in Nat /\ ft.sequence \in Nat
  BY FlagTypes DEF Typed, TypeOK
<1>00. UNCHANGED <<deviceVars, slot>>
  BY HostFrame
<1>1. CASE Type
  <2>1. PICK at \in {0, 1} : toDevice' = Sent(toDevice, Request("TEXT", 0, 0, at, <<>>))
    BY <1>1 DEF Type
  <2>2. Request("TEXT", 0, 0, at, <<>>) \in Frames /\ Request("TEXT", 0, 0, at, <<>>).session = 0
    <3>1. <<>> \in Data
      BY DEF Data, Content
    <3> QED BY <3>1 DEF Request, Frames, Ops
  <2>3. host' = host /\ Members(toHost') \subseteq Heard
    BY <1>1 DEF Type, hostVars, Heard
  <2> QED BY <1>00, <2>1, <2>2, <2>3, TextSequence
<1>2. ASSUME NEW j \in Jobs, Start(j)
      PROVE  SequenceInv'
  <2>1. HostBecomes("enter", host.session + 1, NoFrame)
        /\ Request("ENTER", 0, 0, 0, <<>>) \in Frames
        /\ toDevice' = Sent(toDevice, Request("ENTER", 0, 0, 0, <<>>))
    BY <1>0, <1>2, StartFacts
  <2>2. Request("ENTER", 0, 0, 0, <<>>).session = 0
    BY RequestFacts
  <2>3. host'.phase # "wait" /\ host'.frame = NoFrame /\ Members(toHost') \subseteq Heard
    BY <1>2, <2>1 DEF Start, Heard, HostBecomes
  <2> QED BY <1>00, <2>1, <2>2, <2>3, TextSequence
<1>3. CASE Entered
  <2> DEFINE g == Request("HELLO", host.session, 0, 0, <<>>)
  <2>1. g \in Frames /\ HostBecomes("wait", host.session, g) /\ toDevice' = Sent(toDevice, g)
    BY <1>0, <1>3, EnteredFacts
  <2>2. g.session = host.session
    BY RequestFacts
  <2> HIDE DEF g
  <2>3. Members(toHost') \subseteq Heard /\ host.phase = "enter"
    BY <1>0, <1>3, TailFacts DEF Entered, Heard
  <2>4. \A f \in Line : f.session < host.session /\ f.session \in Nat
    <3>1. Line \subseteq Frames
      BY <1>0, MembersType DEF TypeOK, Line
    <3> QED BY <1>0, <2>3, <3>1 DEF HostInv, Frames
  <2>5. ft.session # host.session
    <3>1. ft.session # 0 => Bound(ft.session)
      BY DEF Bound
    <3>2. ft.session # 0 => ft.session < host.session
      BY <1>0, <2>3, <3>1 DEF BoundInv, Closed
    <3>3. host.session # 0
      BY <1>0, <2>3 DEF HostInv
    <3> QED BY <1>0, <3>2, <3>3
  <2>6. \A f \in Line : f.session # g.session
    BY <1>0, <2>2, <2>4
  <2> QED BY <1>00, <2>1, <2>2, <2>3, <2>5, <2>6, SendSequence
<1>4. CASE Skip
  <2>1. Members(toHost') \subseteq Heard /\ host' = host /\ toDevice' = toDevice
    BY <1>0, <1>4, TailFacts DEF Skip, hostVars, Heard
  <2> QED BY <1>00, <2>1, TextSequence
<1>5. CASE Retry
  <2>1. /\ host.frame.session = host.session /\ host.session # 0 /\ host.phase = "wait"
        /\ toDevice' = Sent(toDevice, host.frame) /\ Members(toHost') \subseteq Heard
    BY <1>0, <1>5 DEF Retry, HostInv, Heard
  <2>2. HostBecomes("wait", host.session, host.frame)
    BY <1>0, <1>5 DEF Retry, hostVars, HostBecomes, TypeOK
  <2>3. host.frame.session = ft.session => Expected(host.frame)
    BY <2>1 DEF SequenceInv
  <2>4. \A f \in Line : f.session = host.frame.session =>
          f.sequence <= host.frame.sequence /\ (f.sequence = host.frame.sequence => f = host.frame)
    BY <2>1 DEF SequenceInv
  <2> QED BY <1>0, <1>00, <2>1, <2>2, <2>3, <2>4, SendSequence
<1>6. ASSUME HostBecomes("rest", host.session, NoFrame), toHost' = <<>>, toDevice' = toDevice
      PROVE  SequenceInv'
  <2>1. host'.phase # "wait" /\ host'.frame = NoFrame /\ Members(toHost') \subseteq Heard
    BY <1>6, EmptyFacts DEF HostBecomes
  <2> QED BY <1>00, <1>6, <2>1, TextSequence
<1>7. CASE GiveUp
  <2>1. HostBecomes("rest", host.session, NoFrame)
    BY <1>0, <1>7, RestFacts DEF GiveUp
  <2> QED BY <1>6, <1>7, <2>1 DEF GiveUp
<1>8. CASE Answered
  <2>1. ASSUME NEW g \in Frames, HostBecomes("wait", host.session, g),
               toDevice' = Sent(toDevice, g), toHost' = Tail(toHost),
               g.session = host.session, g.sequence = host.frame.sequence + 1
        PROVE  SequenceInv'
    <3>1. /\ toHost # <<>> /\ host.phase = "wait" /\ Head(toHost).session = host.session
          /\ Head(toHost).sequence = host.frame.sequence /\ Head(toHost).final
      BY <1>8, Zenon DEF Answered, Awaited
    <3>2. /\ Head(toHost) \in Heard /\ Members(toHost') \subseteq Heard
          /\ host.session # 0 /\ host.frame.session = host.session
      BY <1>0, <2>1, <3>1, TailFacts DEF Heard, HostInv
    <3>3. host.frame.sequence \in Nat /\ \A f \in Line : f.sequence \in Nat
      <4>1. Line \subseteq Frames
        BY <1>0, MembersType DEF TypeOK, Line
      <4> QED BY <1>0, <4>1 DEF Frames
    <3>4. ASSUME host.session = ft.session
          PROVE  Expected(g)
      <4>1. host.frame.sequence < ft.sequence
        BY <3>1, <3>2, <3>4 DEF SequenceInv
      <4>2. Expected(host.frame)
        BY <3>2, <3>4 DEF SequenceInv
      <4>3. InProgress => pendingFrame.sequence = ft.sequence
        BY DEF InProgress, Local, MailInv, SessionInv
      <4>4. ~InProgress /\ host.frame = lastRequest
        BY <1>0, <3>3, <4>1, <4>2, <4>3 DEF Expected
      <4>5. lastRequest.sequence + 1 = ft.sequence
        BY <3>2, <3>4 DEF Local, CacheInv
      <4> QED BY <2>1, <4>4, <4>5 DEF Expected
    <3>5. \A f \in Line : f.session = g.session => f.sequence <= host.frame.sequence
      BY <2>1, <3>1 DEF SequenceInv
    <3>6. \A f \in Line : f.session = g.session => f.sequence < g.sequence
      BY <2>1, <3>3, <3>5
    <3>7. \A f \in Line : f.session = g.session =>
            f.sequence <= g.sequence /\ (f.sequence = g.sequence => f = g)
      BY <2>1, <3>3, <3>6
    <3> QED BY <1>00, <2>1, <3>2, <3>4, <3>7, SendSequence
  <2> QED BY <1>0, <1>6, <1>8, <2>1, AnsweredFacts
<1> QED BY <1>1, <1>2, <1>3, <1>4, <1>5, <1>7, <1>8 DEF Host

(* What an answer adds that the session's number must have passed.           *)
LEMMA AnswersBehind ==
  ASSUME Typed, NEW m \in Responses, Reply(m),
         ~m.final \/ m.session = 0 \/ m.sequence < ft.sequence
  PROVE  \A r \in Heard' : r \in Heard \/ ~r.final \/ r.session = 0 \/ r.sequence < ft.sequence
BY ReplyFacts DEF Heard, Typed, TypeOK

LEMMA ReceiveSequence ==
  Typed /\ Local /\ BoundInv /\ SequenceInv /\ Receive => SequenceInv'
<1> SUFFICES ASSUME Typed, Local, BoundInv, SequenceInv, Receive PROVE SequenceInv'
  OBVIOUS
<1> DEFINE f == Head(toDevice)
<1>0. toDevice # <<>> /\ toDevice' = Tail(toDevice)
  BY DEF Receive
<1>1. f \in Frames /\ f \in Line /\ Proper(f) /\ f.op # "none" /\ f.session \in 0..Sessions
      /\ Line' \subseteq Line
  BY <1>0, ReceiveFacts
<1>2. \/ Enter(f) \/ TextCommand(f) \/ ConsoleRefuses(f)
      \/ Hello(f) \/ Ignore(f) \/ AnswerAgain(f) \/ TurnAway(f)
      \/ AnswerAtOnce(f) \/ Exit(f) \/ Submit(f)
  BY DEF Receive
<1>20. /\ TypeOK /\ ft.session \in Nat /\ ft.sequence \in Nat /\ Heard \subseteq Responses
       /\ f.session \in Nat /\ f.sequence \in Nat
  <2>1. Heard \subseteq Responses
    BY MembersType DEF Typed, TypeOK, Heard
  <2> QED BY <1>1, <2>1, FlagTypes DEF Typed, Frames
<1>21. InTurn(f) => /\ ~InProgress
                    /\ \A g \in Line' \cup {host.frame} : g.session = ft.session => g = f
  BY <1>0, NextInTurn
<1> HIDE DEF f
<1> USE DEF hostVars, deviceVars, storeVars
<1>3. CASE Enter(f)
  <2>1. ft'.session = 0 /\ host' = host
    BY <1>3, OnFacts DEF Enter, FtBecomes
  <2>2. Final(f, TRUE) \in Responses /\ Final(f, TRUE).session = 0 /\ Reply(Final(f, TRUE))
    BY <1>1, <1>3, FinalFacts DEF Enter, Proper
  <2> QED BY <1>0, <2>1, <2>2, AnswersBehind, QuietSequence
<1>4. CASE TextCommand(f)
  <2>1. ft'.session = ft.session /\ UNCHANGED <<host, toHost>>
    BY <1>4, <1>20, TextCommandFacts DEF TextCommand, FtBecomes
  <2>2. ft.session = 0
    BY <1>4 DEF TextCommand, Local, SessionInv
  <2> QED BY <1>0, <2>1, <2>2, QuietSequence DEF Heard
<1>5. CASE ConsoleRefuses(f)
  BY <1>0, <1>5, QuietSequence DEF ConsoleRefuses, Heard, InProgress
<1>6. CASE Hello(f)
  <2>1. /\ ft.session = 0 /\ f.op = "HELLO" /\ f.sequence = 0 /\ f.session # 0 /\ Unbound
        /\ host' = host /\ ft'.session = f.session /\ ft'.sequence = 1 /\ lastRequest' = f
    <3>1. ft'.session = f.session /\ ft'.sequence = 1
      BY <1>1, <1>6, <1>20, HelloFacts DEF FtBecomes
    <3> QED BY <1>1, <1>6, <3>1 DEF Hello, Proper, Unbound
  <2>2. ~Bound(f.session)
    BY <1>1, <1>20, <2>1 DEF BoundInv, Closed
  <2>3. ~InProgress'
    <3>1. slot' = slot /\ ft'.exit = ft.exit
      BY <1>1, <1>6, <1>20, HelloFacts DEF Hello, FtBecomes
    <3> QED BY <2>1, <3>1 DEF InProgress, Local, MailInv, SessionInv
  <2>4. ASSUME NEW g \in Line' \cup {host.frame}, g.session # 0, g.session = ft'.session
        PROVE  Expected(g)'
    <3>1. g.op = "HELLO"
      BY <1>1, <2>1, <2>2, <2>4 DEF Bound
    <3>2. g.sequence = 0
      BY <1>1, <2>4, <3>1 DEF Typed, DataInv, Proper
    <3>3. g = f
      BY <1>1, <2>1, <2>4, <3>2 DEF SequenceInv
    <3> QED BY <2>1, <2>3, <3>3 DEF Expected
  <2>5. ASSUME NEW m \in Heard', m.session = ft'.session
        PROVE  m.sequence < ft'.sequence
    <3>1. Final(f, TRUE) \in Responses /\ Final(f, TRUE).sequence = 0
      BY <1>1, <2>1, FinalFacts
    <3>2. m \in Heard \/ m = Final(f, TRUE)
      BY <1>6, <1>20, <3>1, ReplyFacts DEF Hello, Heard, TypeOK
    <3>3. m \notin Heard
      BY <2>1, <2>2, <2>5 DEF Bound
    <3>4. m.sequence = 0
      BY <3>1, <3>2, <3>3, Zenon
    <3> QED BY <2>1, <3>4
  <2> QED BY <1>0, <2>1, <2>4, <2>5, DeviceSequence
<1>7. CASE Ignore(f)
  BY <1>0, <1>7, QuietSequence DEF Ignore, Heard, InProgress
<1>8. CASE AnswerAgain(f)
  <2>1. /\ lastResponse \in Responses /\ lastResponse.sequence = lastRequest.sequence
        /\ lastRequest.sequence + 1 = ft.sequence /\ lastRequest.sequence \in Nat
    BY <1>8, <1>20 DEF TypeOK, Frames, Local, CacheInv, AnswerAgain, Repeats, Ours
  <2>2. lastResponse.sequence < ft.sequence
    BY <1>20, <2>1
  <2>3. UNCHANGED <<host, ft, slot, pendingFrame, lastRequest>> /\ Reply(lastResponse)
    BY <1>8 DEF AnswerAgain
  <2> QED BY <1>0, <2>1, <2>2, <2>3, AnswersBehind, QuietSequence DEF InProgress
<1>9. CASE TurnAway(f)
  <2>1. /\ New(f) /\ (FtBusy \/ f.sequence # ft.sequence)
        /\ UNCHANGED <<host, ft, slot, pendingFrame, lastRequest>>
        /\ Reply(IF FtBusy THEN Busy(f) ELSE Final(f, FALSE))
    BY <1>9 DEF TurnAway
  <2>2. FtBusy
    <3> SUFFICES ASSUME ~FtBusy PROVE FALSE
      OBVIOUS
    <3>1. ~ft.pending /\ ft.cleanup = 0
      BY DEF FtBusy
    <3>2. slot.from = "none"
      BY <3>1, EmptySlot DEF Local
    <3>3. ~InProgress
      BY <3>1, <3>2 DEF InProgress, Local, SessionInv
    <3>4. f.session # 0 /\ f.session = ft.session /\ f # lastRequest
      BY <2>1 DEF New, Ours, Repeats
    <3> QED BY <1>1, <2>1, <3>3, <3>4 DEF SequenceInv, Expected
  <2>3. Busy(f) \in Responses /\ ~Busy(f).final /\ Reply(Busy(f))
    BY <1>1, <2>1, <2>2, BusyFacts
  <2> QED BY <1>0, <2>1, <2>3, AnswersBehind, QuietSequence DEF InProgress
<1>10. CASE AnswerAtOnce(f)
  <2>1. PICK ok \in BOOLEAN : Reply(Final(f, ok))
    BY <1>10 DEF AnswerAtOnce
  <2>2. /\ ft'.session = ft.session /\ ft'.sequence = ft.sequence + 1 /\ ft'.exit = ft.exit
        /\ slot' = slot /\ host' = host /\ lastRequest' = f /\ f.sequence = ft.sequence
        /\ InTurn(f)
    BY <1>1, <1>10, <1>20, AnswerAtOnceFacts DEF AnswerAtOnce, FtBecomes, InTurn
  <2>3. ~InProgress'
    BY <1>21, <2>2 DEF InProgress
  <2>4. \A g \in Line' \cup {host.frame} : g.session # 0 /\ g.session = ft'.session => Expected(g)'
    BY <1>21, <2>2, <2>3 DEF Expected
  <2>5. ASSUME NEW m \in Heard', m.final, m.session # 0, m.session = ft'.session
        PROVE  m.sequence < ft'.sequence
    <3>1. Final(f, ok) \in Responses /\ Final(f, ok).sequence = ft.sequence
      BY <1>1, <2>2, FinalFacts
    <3>2. m \in Heard \/ m = Final(f, ok)
      BY <1>20, <2>1, <3>1, ReplyFacts DEF Heard, TypeOK
    <3>3. m \in Heard => m.sequence < ft.sequence /\ m.sequence \in Nat
      BY <1>20, <2>2, <2>5 DEF SequenceInv, Responses
    <3> QED BY <1>20, <2>2, <3>1, <3>2, <3>3
  <2> QED BY <1>0, <2>2, <2>4, <2>5, DeviceSequence
<1>11. CASE Exit(f)
  <2>1. /\ ft'.session = ft.session /\ ft'.sequence = ft.sequence /\ ft'.exit
        /\ UNCHANGED <<host, toHost>> /\ pendingFrame' = f /\ InTurn(f)
    BY <1>1, <1>11, <1>20, ExitFacts DEF Exit, FtBecomes
  <2>2. \A g \in Line' \cup {host.frame} : g.session # 0 /\ g.session = ft'.session => Expected(g)'
    BY <1>21, <2>1 DEF Expected, InProgress
  <2>3. \A m \in Heard' : m.final /\ m.session # 0 /\ m.session = ft'.session => m.sequence < ft'.sequence
    BY <2>1 DEF SequenceInv, Heard
  <2> QED BY <1>0, <2>1, <2>2, <2>3, DeviceSequence
<1>12. CASE Submit(f)
  <2>1. slot.state = "IDLE"
    BY <1>12 DEF Submit, InTurn, FtBusy, Local, MailInv
  <2>2. /\ ft'.session = ft.session /\ ft'.sequence = ft.sequence /\ slot'.from = "host"
        /\ host' = host /\ pendingFrame' = f /\ InTurn(f) /\ Reply(Busy(f))
    BY <1>1, <1>12, <1>20, <2>1, SubmitFacts DEF Submit, FtBecomes, SlotBecomes
  <2>3. \A g \in Line' \cup {host.frame} : g.session # 0 /\ g.session = ft'.session => Expected(g)'
    BY <1>21, <2>2 DEF Expected, InProgress
  <2>4. ASSUME NEW m \in Heard', m.final, m.session # 0, m.session = ft'.session
        PROVE  m.sequence < ft'.sequence
    <3>1. Busy(f) \in Responses /\ ~Busy(f).final
      BY <1>1, BusyFacts
    <3>2. m \in Heard
      BY <1>20, <2>2, <2>4, <3>1, ReplyFacts DEF Heard, TypeOK
    <3> QED BY <2>2, <2>4, <3>2 DEF SequenceInv
  <2> QED BY <1>0, <2>2, <2>3, <2>4, DeviceSequence
<1> QED BY <1>2, <1>3, <1>4, <1>5, <1>6, <1>7, <1>8, <1>9, <1>10, <1>11, <1>12

(* The result of a request, or of the cleanup after EXIT: the session goes on *)
(* to the next number.                                                        *)
LEMMA AdvanceSequence ==
  ASSUME Typed, Local, SequenceInv, InProgress, host' = host, toDevice' = toDevice,
         ft'.session = ft.session, ft'.sequence = ft.sequence + 1, ~InProgress',
         lastRequest' = pendingFrame, Reply(Final(pendingFrame, slot.ok))
  PROVE  SequenceInv'
<1>0. /\ pendingFrame \in Frames /\ pendingFrame.sequence = ft.sequence
      /\ ft.sequence \in Nat /\ slot.ok \in BOOLEAN /\ Heard \subseteq Responses
  <2>1. Heard \subseteq Responses
    BY MembersType DEF Typed, TypeOK, Heard
  <2>2. pendingFrame.sequence = ft.sequence
    BY DEF InProgress, Local, MailInv, SessionInv
  <2> QED BY <2>1, <2>2, FlagTypes DEF Typed, TypeOK
<1>1. \A g \in Line' \cup {host.frame} : g.session # 0 /\ g.session = ft'.session => Expected(g)'
  BY DEF SequenceInv, Expected, Line
<1>2. ASSUME NEW m \in Heard', m.final, m.session # 0, m.session = ft'.session
      PROVE  m.sequence < ft'.sequence
  <2>1. Final(pendingFrame, slot.ok) \in Responses
        /\ Final(pendingFrame, slot.ok).sequence = ft.sequence
    BY <1>0, FinalFacts
  <2>2. m \in Heard \/ m = Final(pendingFrame, slot.ok)
    BY <2>1, ReplyFacts DEF Heard, Typed, TypeOK
  <2>3. m \in Heard => m.sequence < ft.sequence /\ m.sequence \in Nat
    BY <1>0, <1>2 DEF SequenceInv, Responses
  <2> QED BY <1>0, <2>1, <2>2, <2>3
<1> QED BY <1>1, <1>2, DeviceSequence

LEMMA DeviceTasksSequence ==
  Typed /\ Local /\ SequenceInv
    /\ (Poll \/ StorageTask \/ MountAgain \/ PowerCut \/ Lose) => SequenceInv'
<1> SUFFICES ASSUME Typed, Local, SequenceInv,
                    Poll \/ StorageTask \/ MountAgain \/ PowerCut \/ Lose
             PROVE  SequenceInv'
  OBVIOUS
<1> USE DEF hostVars, lineVars, deviceVars, storeVars
<1>0. TypeOK /\ pendingFrame \in Frames /\ slot.ok \in BOOLEAN /\ ft.cleanup \in 0..2
  BY FlagTypes DEF Typed, TypeOK, Transfer
<1>1. CASE CompleteBinary
  <2>1. /\ ft.pending /\ ft.binary /\ ft.cleanup # 2 /\ slot.state = "COMPLETE"
        /\ UNCHANGED <<host, toDevice, pendingFrame>> /\ lastRequest' = pendingFrame
        /\ Reply(Final(pendingFrame, slot.ok)) /\ slot' = SlotIdle
    BY <1>1 DEF CompleteBinary, TakeResult
  <2>2. slot.from = "host" /\ ~ft.exit
    BY <1>0, <2>1 DEF Local, MailInv, SessionInv
  <2>3. ft'.session = ft.session /\ ft'.sequence = ft.sequence + 1 /\ ft'.exit = ft.exit
        /\ slot'.from = "none"
    BY <1>0, <1>1, CompleteBinaryFacts DEF FtBecomes, SlotBecomes
  <2>4. InProgress /\ ~InProgress'
    BY <2>2, <2>3 DEF InProgress
  <2> QED BY <2>1, <2>3, <2>4, AdvanceSequence
<1>2. CASE CompleteText
  <2>1. ft'.session = ft.session /\ UNCHANGED <<host, toDevice, toHost>>
    BY <1>0, <1>2, CompleteTextFacts DEF CompleteText, FtBecomes
  <2>2. ft.session = 0
    BY <1>2 DEF CompleteText, Local, MailInv, SessionInv
  <2> QED BY <2>1, <2>2, QuietSequence DEF Heard
<1>3. CASE FinishCleanup
  <2>1. UNCHANGED <<host, toDevice>> /\ slot'.from = "none"
    BY <1>0, <1>3, FinishCleanupFacts DEF FinishCleanup, SlotBecomes
  <2>2. CASE ft.exit
    <3>1. /\ FtBecomes("linger", ft.session, ft.sequence + 1, FALSE, FALSE, 0, FALSE)
          /\ lastRequest' = pendingFrame /\ lastResponse' = Final(pendingFrame, slot.ok)
          /\ Reply(lastResponse')
      BY <1>0, <1>3, <2>2, FinishCleanupFacts
    <3>4. Reply(Final(pendingFrame, slot.ok))
      BY <3>1
    <3>2. ft'.session = ft.session /\ ft'.sequence = ft.sequence + 1 /\ ~ft'.exit
      BY <3>1 DEF FtBecomes
    <3>3. InProgress /\ ~InProgress'
      BY <2>1, <2>2, <3>2 DEF InProgress
    <3> QED BY <2>1, <3>1, <3>2, <3>3, <3>4, AdvanceSequence
  <2>3. CASE ~ft.exit
    <3>1. ft'.session = 0 /\ toHost' = toHost
      BY <1>0, <1>3, <2>3, FinishCleanupFacts DEF FtBecomes
    <3> QED BY <2>1, <3>1, QuietSequence DEF Heard
  <2> QED BY <2>2, <2>3
<1>4. CASE Progress
  <2> DEFINE g == IF ft.cleanup = 2 THEN [pendingFrame EXCEPT !.op = "EXIT"] ELSE pendingFrame
  <2>1. g \in Frames
    BY <1>0 DEF Frames, Ops
  <2>2. Reply(Busy(g))
    BY <1>4, Zenon DEF Progress
  <2> HIDE DEF g
  <2>3. Busy(g) \in Responses /\ ~Busy(g).final
    BY <2>1, BusyFacts
  <2>4. UNCHANGED <<host, toDevice, ft, slot, pendingFrame, lastRequest>>
    BY <1>4 DEF Progress
  <2> QED BY <2>2, <2>3, <2>4, AnswersBehind, QuietSequence DEF InProgress
<1>5. CASE LingerExpires
  <2>1. ft'.session = 0 /\ UNCHANGED <<host, toDevice, toHost>>
    BY <1>5, OffFacts DEF LingerExpires, FtBecomes
  <2> QED BY <2>1, QuietSequence DEF Heard
<1>6. CASE StartCleanup
  <2>1. /\ ft'.session = ft.session /\ ft'.sequence = ft.sequence /\ ft'.exit = ft.exit
        /\ slot'.from = "cleanup" /\ UNCHANGED <<host, toDevice, toHost, pendingFrame, lastRequest>>
    BY <1>0, <1>6, StartCleanupFacts DEF StartCleanup, FtBecomes, SlotBecomes
  <2>2. slot.from = "none"
    BY <1>6, EmptySlot DEF StartCleanup, Local
  <2> QED BY <2>1, <2>2, QuietSequence DEF Heard, InProgress
<1>7. CASE StorageTask
  <2>1. slot'.from = slot.from
    BY <1>7, StorageTaskFacts DEF Typed, Local, SlotBecomes
  <2>2. UNCHANGED <<host, toDevice, toHost, ft, pendingFrame, lastRequest>>
    BY <1>7 DEF StorageTask
  <2> QED BY <2>1, <2>2, QuietSequence DEF Heard, InProgress
<1>8. CASE MountAgain
  BY <1>8, QuietSequence DEF MountAgain, Heard, InProgress
<1>9. CASE PowerCut
  <2>1. ft'.session = 0
    BY <1>9, OffFacts DEF PowerCut, FtBecomes
  <2> QED BY <1>9, <2>1, QuietSequence DEF PowerCut, Heard
<1>10. CASE Lose
  <2>1. \A m \in Heard' : m \in Heard
    BY <1>0, <1>10, TailFacts DEF Lose, TypeOK, Heard
  <2>2. UNCHANGED <<host, ft, slot, pendingFrame, lastRequest>>
    BY <1>10 DEF Lose
  <2>3. toDevice' = toDevice \/ (toDevice # <<>> /\ toDevice' = Tail(toDevice))
    BY <1>10 DEF Lose
  <2> QED BY <2>1, <2>2, <2>3, QuietSequence DEF InProgress
<1> QED BY <1>1, <1>2, <1>3, <1>4, <1>5, <1>6, <1>7, <1>8, <1>9, <1>10 DEF Poll

-----------------------------------------------------------------------------
(* What the store has completed, and what the host is told of it *)

(* A step that executes nothing and leaves the session, its number and the    *)
(* mailbox as they are, or ends the session.                                  *)
LEMMA QuietExecuted ==
  ASSUME ExecutedInv, executed' = executed, host'.session = host.session,
         \/ ft'.session = 0
         \/ ft'.session = ft.session /\ ft'.sequence = ft.sequence,
         slot' = slot \/ (slot'.state # "COMPLETE" /\ ~(slot.from = "host" /\ slot.state = "COMPLETE"))
           \/ (slot'.state # "COMPLETE" /\ ft'.session = 0)
  PROVE  ExecutedInv'
BY DEF ExecutedInv

LEMMA QuietOwn ==
  ASSUME AnswerIsOwn, executed \subseteq executed', host'.session = host.session,
         \A m \in Heard' \cup {lastResponse'} :
            \/ m \in Heard \cup {lastResponse}
            \/ m.op \notin StoreOps \/ ~m.final \/ ~m.ok
  PROVE  AnswerIsOwn'
BY DEF AnswerIsOwn, Heard, Members

LEMMA AnswersPlain ==
  ASSUME Typed, NEW m \in Responses, Reply(m), m.op \notin StoreOps \/ ~m.final \/ ~m.ok
  PROVE  \A r \in Heard' : r \in Heard \/ r.op \notin StoreOps \/ ~r.final \/ ~r.ok
BY ReplyFacts DEF Heard, Typed, TypeOK

Told == ExecutedInv /\ AnswerIsOwn

LEMMA ReceiveTold ==
  Typed /\ Local /\ BoundInv /\ SequenceInv /\ Told /\ Receive => Told'
<1> SUFFICES ASSUME Typed, Local, BoundInv, SequenceInv, ExecutedInv, AnswerIsOwn, Receive
             PROVE  ExecutedInv' /\ AnswerIsOwn'
  BY DEF Told
<1> DEFINE f == Head(toDevice)
<1>0. toDevice # <<>> /\ toDevice' = Tail(toDevice)
  BY DEF Receive
<1>1. f \in Frames /\ f \in Line /\ Proper(f) /\ f.op # "none" /\ f.session \in 0..Sessions
  BY <1>0, ReceiveFacts
<1>2. \/ Enter(f) \/ TextCommand(f) \/ ConsoleRefuses(f)
      \/ Hello(f) \/ Ignore(f) \/ AnswerAgain(f) \/ TurnAway(f)
      \/ AnswerAtOnce(f) \/ Exit(f) \/ Submit(f)
  BY DEF Receive
<1> HIDE DEF f
<1>20. /\ TypeOK /\ ft.session \in Nat /\ ft.sequence \in Nat /\ Heard \subseteq Responses
       /\ lastResponse \in Responses /\ executed \subseteq Responses /\ f.session \in Nat
  <2>1. Heard \subseteq Responses
    BY MembersType DEF Typed, TypeOK, Heard
  <2> QED BY <1>1, <2>1, FlagTypes DEF Typed, Frames, TypeOK
<1>21. InTurn(f) => slot.state = "IDLE" /\ slot.from = "none"
  BY EmptySlot DEF InTurn, FtBusy, Local
<1> USE DEF hostVars, deviceVars, storeVars
<1>3. CASE Enter(f)
  <2>1. ft'.session = 0 /\ UNCHANGED <<host, slot, executed>> /\ Reply(Final(f, TRUE))
        /\ lastResponse' = NoAnswer /\ f.op = "ENTER"
    BY <1>3, OnFacts DEF Enter, FtBecomes, Forget
  <2>2. Final(f, TRUE) \in Responses /\ Final(f, TRUE).op \notin StoreOps
    BY <1>1, <2>1, FinalFacts DEF StoreOps
  <2>3. ~lastResponse'.final
    BY <2>1, NoAnswerFacts
  <2> QED BY <2>1, <2>2, <2>3, AnswersPlain, QuietExecuted, QuietOwn
<1>4. CASE TextCommand(f)
  <2>1. /\ ft'.session = ft.session /\ ft'.sequence = ft.sequence /\ slot'.state = "PENDING"
        /\ UNCHANGED <<host, toHost, executed, lastResponse>> /\ ft.session = 0
    BY <1>4, <1>20, TextCommandFacts DEF TextCommand, FtBecomes, SlotBecomes, Local, SessionInv
  <2> QED BY <2>1, QuietExecuted, QuietOwn DEF Heard
<1>5. CASE ConsoleRefuses(f)
  BY <1>5, QuietExecuted, QuietOwn DEF ConsoleRefuses, Heard
<1>6. CASE Hello(f)
  <2>1. /\ ft.session = 0 /\ f.op = "HELLO" /\ f.session # 0 /\ Unbound
        /\ UNCHANGED <<host, slot, executed>> /\ ft'.session = f.session
        /\ lastResponse' = Final(f, TRUE) /\ Reply(Final(f, TRUE))
    <3>1. ft'.session = f.session
      BY <1>1, <1>6, <1>20, HelloFacts DEF FtBecomes
    <3> QED BY <1>1, <1>6, <3>1 DEF Hello, Proper, Unbound
  <2>2. ~Bound(f.session)
    BY <1>1, <1>20, <2>1 DEF BoundInv, Closed
  <2>3. \A e \in executed : e.session # f.session
    BY <2>1, <2>2 DEF Bound
  <2>4. ExecutedInv'
    BY <2>1, <2>3 DEF ExecutedInv
  <2>5. Final(f, TRUE) \in Responses /\ Final(f, TRUE).op \notin StoreOps
    BY <1>1, <2>1, FinalFacts DEF StoreOps
  <2> QED BY <2>1, <2>4, <2>5, AnswersPlain, QuietOwn
<1>7. CASE Ignore(f)
  BY <1>7, QuietExecuted, QuietOwn DEF Ignore, Heard
<1>8. CASE AnswerAgain(f)
  <2>1. UNCHANGED <<host, ft, slot, executed, lastResponse>> /\ Reply(lastResponse)
    BY <1>8 DEF AnswerAgain
  <2>2. Heard' \subseteq Heard \cup {lastResponse}
    BY <1>20, <2>1, ReplyFacts DEF Heard, TypeOK
  <2> QED BY <2>1, <2>2, QuietExecuted, QuietOwn
<1>9. CASE TurnAway(f)
  <2>1. PICK m \in {Busy(f), Final(f, FALSE)} : Reply(m)
    BY <1>9 DEF TurnAway
  <2>2. m \in Responses /\ ~m.ok
    BY <1>1, <2>1, BusyFacts, FinalFacts
  <2> QED BY <1>9, <2>1, <2>2, AnswersPlain, QuietExecuted, QuietOwn DEF TurnAway
<1>10. CASE AnswerAtOnce(f)
  <2>1. PICK ok \in BOOLEAN : lastResponse' = Final(f, ok) /\ Reply(Final(f, ok))
    BY <1>10 DEF AnswerAtOnce
  <2>2. /\ ft'.session = ft.session /\ ft'.sequence = ft.sequence + 1
        /\ UNCHANGED <<host, slot, executed>> /\ f.op \in {"STATUS", "REFUSED"} /\ InTurn(f)
    BY <1>1, <1>10, <1>20, AnswerAtOnceFacts DEF AnswerAtOnce, FtBecomes
  <2>3. Final(f, ok) \in Responses /\ Final(f, ok).op \notin StoreOps
    BY <1>1, <2>2, FinalFacts DEF StoreOps
  <2>4. ExecutedInv'
    <3>1. \A e \in executed : e.sequence \in Nat
      BY <1>20 DEF Responses
    <3> QED BY <1>20, <1>21, <2>2, <3>1 DEF ExecutedInv
  <2> QED BY <2>1, <2>2, <2>3, <2>4, AnswersPlain, QuietOwn
<1>11. CASE Exit(f)
  <2>1. /\ ft'.session = ft.session /\ ft'.sequence = ft.sequence
        /\ UNCHANGED <<host, toHost, slot, executed, lastResponse>>
    BY <1>1, <1>11, <1>20, ExitFacts DEF Exit, FtBecomes
  <2> QED BY <2>1, QuietExecuted, QuietOwn DEF Heard
<1>12. CASE Submit(f)
  <2>1. slot.state = "IDLE" /\ slot.from = "none"
    BY <1>12, <1>21 DEF Submit
  <2>2. /\ ft'.session = ft.session /\ ft'.sequence = ft.sequence /\ slot'.state = "PENDING"
        /\ UNCHANGED <<host, executed, lastResponse>> /\ Reply(Busy(f))
    BY <1>1, <1>12, <1>20, <2>1, SubmitFacts DEF Submit, FtBecomes, SlotBecomes
  <2>3. Busy(f) \in Responses /\ ~Busy(f).final
    BY <1>1, BusyFacts
  <2> QED BY <2>1, <2>2, <2>3, AnswersPlain, QuietExecuted, QuietOwn
<1> QED BY <1>2, <1>3, <1>4, <1>5, <1>6, <1>7, <1>8, <1>9, <1>10, <1>11, <1>12

LEMMA DeviceTasksTold ==
  Typed /\ Local /\ Told /\ (Poll \/ StorageTask \/ MountAgain \/ PowerCut \/ Lose) => Told'
<1> SUFFICES ASSUME Typed, Local, ExecutedInv, AnswerIsOwn,
                    Poll \/ StorageTask \/ MountAgain \/ PowerCut \/ Lose
             PROVE  ExecutedInv' /\ AnswerIsOwn'
  BY DEF Told
<1> USE DEF hostVars, lineVars, deviceVars, storeVars
<1>0. /\ TypeOK /\ pendingFrame \in Frames /\ slot.ok \in BOOLEAN /\ slot.request \in Frames
      /\ ft.sequence \in Nat /\ executed \subseteq Responses /\ ft.cleanup \in 0..2
  BY FlagTypes DEF Typed, TypeOK, Transfer
<1>00. /\ Final(pendingFrame, slot.ok) \in Responses
       /\ Final(pendingFrame, slot.ok).op = pendingFrame.op
       /\ Final(pendingFrame, slot.ok).session = pendingFrame.session
  BY <1>0, FinalFacts
<1>1. CASE CompleteBinary
  <2>1. /\ ft.pending /\ ft.binary /\ ft.cleanup # 2 /\ slot.state = "COMPLETE"
        /\ UNCHANGED <<host, executed>> /\ lastResponse' = Final(pendingFrame, slot.ok)
        /\ Reply(Final(pendingFrame, slot.ok))
    BY <1>1 DEF CompleteBinary, TakeResult
  <2>2. slot.from = "host" /\ slot.request = pendingFrame
    BY <1>0, <2>1 DEF Local, MailInv, SessionInv
  <2>3. ft'.session = ft.session /\ ft'.sequence = ft.sequence + 1
        /\ slot'.state = "IDLE" /\ slot'.from = "none"
    BY <1>0, <1>1, CompleteBinaryFacts DEF FtBecomes, SlotBecomes
  <2>4. ExecutedInv'
    <3>1. \A e \in executed : e.sequence \in Nat
      BY <1>0 DEF Responses
    <3> QED BY <1>0, <2>1, <2>3, <3>1 DEF ExecutedInv
  <2>5. Heard' \subseteq Heard \cup {Final(pendingFrame, slot.ok)}
    BY <1>0, <1>00, <2>1, ReplyFacts DEF Heard, TypeOK
  <2>6. pendingFrame.session = host.session => Final(pendingFrame, slot.ok) \in executed
    BY <2>1, <2>2 DEF ExecutedInv
  <2>7. AnswerIsOwn'
    <3>1. ASSUME NEW m \in Heard' \cup {lastResponse'}, m.op \in StoreOps, m.final, m.ok,
                 m.session = host.session
          PROVE  m \in executed
      <4>1. CASE m = Final(pendingFrame, slot.ok)
        BY <1>00, <2>6, <3>1, <4>1
      <4>2. CASE m \in Heard
        BY <3>1, <4>2, Zenon DEF AnswerIsOwn, Heard, Members
      <4> QED BY <2>1, <2>5, <4>1, <4>2
    <3> QED BY <2>1, <3>1, Zenon DEF AnswerIsOwn, Heard, Members
  <2> QED BY <2>4, <2>7
<1>2. CASE CompleteText
  <2>1. /\ ft'.session = ft.session /\ UNCHANGED <<host, toHost, executed, lastResponse>>
        /\ slot'.state # "COMPLETE"
    BY <1>0, <1>2, CompleteTextFacts DEF CompleteText, FtBecomes, SlotBecomes
  <2>2. ft.session = 0
    BY <1>2 DEF CompleteText, Local, MailInv, SessionInv
  <2> QED BY <2>1, <2>2, QuietExecuted, QuietOwn DEF Heard
<1>3. CASE FinishCleanup
  <2>1. UNCHANGED <<host, executed>> /\ slot'.state = "IDLE" /\ slot.from = "cleanup"
    <3>1. slot'.state = "IDLE"
      BY <1>0, <1>3, FinishCleanupFacts DEF SlotBecomes
    <3> QED BY <1>3, <3>1 DEF FinishCleanup, TakeResult, Local, MailInv
  <2>2. CASE ft.exit
    <3>1. /\ FtBecomes("linger", ft.session, ft.sequence + 1, FALSE, FALSE, 0, FALSE)
          /\ lastResponse' = Final(pendingFrame, slot.ok) /\ Reply(lastResponse')
      BY <1>0, <1>3, <2>2, FinishCleanupFacts
    <3>2. ft'.session = ft.session /\ ft'.sequence = ft.sequence + 1
      BY <3>1 DEF FtBecomes
    <3>3. ExecutedInv'
      <4>1. \A e \in executed : e.sequence \in Nat
        BY <1>0 DEF Responses
      <4> QED BY <1>0, <2>1, <3>2, <4>1 DEF ExecutedInv
    <3>4. pendingFrame.op \notin StoreOps
      BY <2>2 DEF Local, SessionInv, StoreOps
    <3> QED BY <1>00, <2>1, <3>1, <3>3, <3>4, AnswersPlain, QuietOwn
  <2>3. CASE ~ft.exit
    <3>1. ft'.session = 0 /\ toHost' = toHost /\ ~lastResponse'.final
      BY <1>0, <1>3, <2>3, FinishCleanupFacts, NoAnswerFacts DEF FtBecomes, Forget
    <3> QED BY <2>1, <3>1, QuietExecuted, QuietOwn DEF Heard
  <2> QED BY <2>2, <2>3
<1>4. CASE Progress
  <2> DEFINE g == IF ft.cleanup = 2 THEN [pendingFrame EXCEPT !.op = "EXIT"] ELSE pendingFrame
  <2>1. g \in Frames
    BY <1>0 DEF Frames, Ops
  <2>2. Reply(Busy(g))
    BY <1>4, Zenon DEF Progress
  <2> HIDE DEF g
  <2>3. Busy(g) \in Responses /\ ~Busy(g).final
    BY <2>1, BusyFacts
  <2>4. UNCHANGED <<host, ft, slot, executed, lastResponse>>
    BY <1>4 DEF Progress
  <2> QED BY <2>2, <2>3, <2>4, AnswersPlain, QuietExecuted, QuietOwn
<1>5. CASE LingerExpires
  <2>1. ft'.session = 0 /\ UNCHANGED <<host, toHost, slot, executed>> /\ ~lastResponse'.final
    BY <1>5, OffFacts, NoAnswerFacts DEF LingerExpires, FtBecomes, Forget
  <2> QED BY <2>1, QuietExecuted, QuietOwn DEF Heard
<1>6. CASE StartCleanup
  <2>1. /\ ft'.session = ft.session /\ ft'.sequence = ft.sequence
        /\ slot'.state = "PENDING" /\ UNCHANGED <<host, toHost, executed, lastResponse>>
    BY <1>0, <1>6, StartCleanupFacts DEF StartCleanup, FtBecomes, SlotBecomes
  <2>2. slot.from = "none"
    BY <1>6, EmptySlot DEF StartCleanup, Local
  <2> QED BY <2>1, <2>2, QuietExecuted, QuietOwn DEF Heard
<1>7. CASE StorageTask
  <2>1. PICK o :
           /\ CallFacts(store, disk, slot.request, o)
           /\ SlotBecomes(IF o.deferred THEN "RUNNING" ELSE "COMPLETE", slot.request, slot.from, o.ok)
           /\ executed' = IF slot.from = "host" /\ ~o.deferred
                          THEN executed \cup {Final(slot.request, o.ok)} ELSE executed
    BY <1>7, StorageTaskFacts DEF Typed, Local
  <2>2. /\ slot'.state = (IF o.deferred THEN "RUNNING" ELSE "COMPLETE") /\ slot'.request = slot.request
        /\ slot'.from = slot.from /\ slot'.ok = o.ok /\ o.ok \in BOOLEAN
    BY <2>1 DEF SlotBecomes, CallFacts
  <2>3. UNCHANGED <<host, toHost, ft, lastResponse>> /\ slot.state # "COMPLETE"
    BY <1>7 DEF StorageTask
  <2>4. Final(slot.request, o.ok).session = slot.request.session
        /\ Final(slot.request, o.ok).sequence = slot.request.sequence
    BY <1>0, <2>2, FinalFacts
  <2>5. slot.from = "host" => slot.request.session = ft.session /\ ft.session # 0
                              /\ slot.request.sequence = ft.sequence
    BY DEF Local, MailInv
  <2>6. ExecutedInv'
    <3>1. CASE slot.from = "host" /\ ~o.deferred
      BY <2>1, <2>2, <2>3, <2>4, <2>5, <3>1 DEF ExecutedInv
    <3>2. CASE ~(slot.from = "host" /\ ~o.deferred)
      BY <2>1, <2>2, <2>3, <3>2 DEF ExecutedInv
    <3> QED BY <3>1, <3>2
  <2> QED BY <2>1, <2>3, <2>6, QuietOwn DEF Heard
<1>8. CASE MountAgain
  BY <1>8, QuietExecuted, QuietOwn DEF MountAgain, Heard
<1>9. CASE PowerCut
  <2>1. ft'.session = 0 /\ UNCHANGED <<host, toHost, executed>> /\ ~lastResponse'.final
        /\ slot'.state = "IDLE"
    BY <1>9, OffFacts, SlotIdleFacts, NoAnswerFacts DEF PowerCut, FtBecomes, Forget, SlotBecomes
  <2> QED BY <2>1, QuietExecuted, QuietOwn DEF Heard
<1>10. CASE Lose
  <2>1. \A m \in Heard' : m \in Heard
    BY <1>0, <1>10, TailFacts DEF Lose, TypeOK, Heard
  <2>2. UNCHANGED <<host, ft, slot, executed, lastResponse>>
    BY <1>10 DEF Lose
  <2> QED BY <2>1, <2>2, QuietExecuted, QuietOwn
<1> QED BY <1>1, <1>2, <1>3, <1>4, <1>5, <1>6, <1>7, <1>8, <1>9, <1>10 DEF Poll

LEMMA HostActsTold == Typed /\ Local /\ Told /\ Host => Told'
<1> SUFFICES ASSUME Typed, Local, ExecutedInv, AnswerIsOwn, Host
             PROVE  ExecutedInv' /\ AnswerIsOwn'
  BY DEF Told
<1>0. TypeOK /\ HostInv /\ host.session \in Nat /\ toHost \in Seq(Responses)
  BY FlagTypes DEF Typed, TypeOK
<1>1. UNCHANGED <<ft, slot, lastResponse, lastRequest>>
  BY HostFrame DEF deviceVars
<1>2. ASSUME NEW j \in Jobs, Start(j)
      PROVE  ExecutedInv' /\ AnswerIsOwn'
  <2>1. host'.session = host.session + 1 /\ executed' = {} /\ toHost' = <<>>
    BY <1>0, <1>2, StartFacts DEF Start, HostBecomes, HostInv
  <2>2. lastResponse.session <= host.session /\ lastResponse.session \in Nat
    BY DEF Local, CacheInv, Typed, DataInv, Proper, TypeOK, Responses
  <2>3. slot.from = "host" => slot.request.session <= host.session /\ slot.request.session \in Nat
    BY FlagTypes DEF Typed, DataInv, Proper, Frames
  <2>4. ExecutedInv'
    BY <1>0, <1>1, <2>1, <2>3 DEF ExecutedInv
  <2>5. AnswerIsOwn'
    BY <1>0, <1>1, <2>1, <2>2 DEF AnswerIsOwn
  <2> QED BY <2>4, <2>5
<1>3. ASSUME host'.session = host.session, executed' = executed, Members(toHost') \subseteq Heard
      PROVE  ExecutedInv' /\ AnswerIsOwn'
  BY <1>1, <1>3, QuietExecuted, QuietOwn DEF Heard
<1>4. CASE Type
  BY <1>3, <1>4 DEF Type, hostVars, storeVars, Heard
<1>5. CASE Entered
  <2>1. host'.session = host.session
    BY <1>0, <1>5, EnteredFacts DEF HostBecomes
  <2>2. executed' = executed /\ Members(toHost') \subseteq Heard
    BY <1>0, <1>5, TailFacts DEF Entered, storeVars, Heard
  <2> QED BY <1>3, <2>1, <2>2
<1>6. CASE Skip \/ Retry
  <2>1. host' = host /\ executed' = executed /\ Members(toHost') \subseteq Heard
    BY <1>0, <1>6, TailFacts DEF Skip, Retry, hostVars, storeVars, Heard
  <2> QED BY <1>3, <2>1
<1>7. CASE GiveUp
  <2>1. host'.session = host.session
    BY <1>0, <1>7, RestFacts DEF GiveUp, HostBecomes
  <2>2. executed' = executed /\ Members(toHost') \subseteq Heard
    BY <1>7, EmptyFacts DEF GiveUp, storeVars
  <2> QED BY <1>3, <2>1, <2>2
<1>8. CASE Answered
  <2>1. executed' = executed /\ toHost # <<>>
    BY <1>8, Zenon DEF Answered, storeVars
  <2>2. host'.session = host.session /\ toHost' \in {<<>>, Tail(toHost)}
    BY <1>0, <1>8, AnsweredFacts DEF HostBecomes
  <2>3. Members(toHost') \subseteq Heard
    BY <1>0, <2>1, <2>2, TailFacts, EmptyFacts DEF Heard
  <2> QED BY <1>3, <2>1, <2>2, <2>3
<1> QED BY <1>2, <1>4, <1>5, <1>6, <1>7, <1>8 DEF Host

-----------------------------------------------------------------------------
(* What the protocol promises *)

Inv == Typed /\ Local /\ OrderInv /\ BoundInv /\ SequenceInv /\ Told

LEMMA InitHolds == Init => Inv
<1> SUFFICES ASSUME Init PROVE Inv
  OBVIOUS
<1>0. <<>> \in Data /\ <<>> \in Content /\ NoFrame \in Frames /\ NoAnswer \in Responses
  BY NoFrameFacts, NoAnswerFacts DEF Data, Content
<1>1. PICK file \in {Absent} \cup Uploads, temp \in {Absent, <<>>} :
        \E o \in Remount([file |-> file, temp |-> temp]) : store = o.store /\ disk = o.disk
  BY DEF Init
<1>2. [file |-> file, temp |-> temp] \in Disk
  BY <1>0, UploadsAssumption DEF Disk, Files
<1>3. store \in Store /\ disk \in Disk /\ ~store.upload /\ ~store.committing
  BY <1>1, <1>2, RemountFacts DEF Dead
<1>4. host \in Client /\ host.phase = "rest" /\ host.session = 0 /\ host.frame = NoFrame
  <2>1. host = [phase |-> "rest", session |-> 0, frame |-> NoFrame]
    BY DEF Init
  <2> QED BY <1>0, <2>1, Bounds, Zenon DEF Client
<1>5. /\ ft \in Transfer /\ ft.active = "off" /\ ft.session = 0 /\ ft.sequence = 1
      /\ ~ft.pending /\ ~ft.binary /\ ft.cleanup = 0 /\ ~ft.exit
  <2>1. 0 \in 0..2 /\ 1 \in Nat /\ ft = FtOff
    BY DEF Init
  <2> QED BY <2>1, Bounds, Zenon DEF FtOff, Transfer
<1>6. /\ slot \in Mailbox /\ slot.state = "IDLE" /\ slot.from = "none" /\ slot = SlotIdle
  <2>1. slot = SlotIdle
    BY DEF Init
  <2> QED BY <1>0, <2>1, Zenon DEF SlotIdle, Mailbox
<1>7. /\ job \in Jobs /\ ask \in Question /\ cuts \in 0..Cuts /\ executed = {}
      /\ toDevice = <<>> /\ toHost = <<>>
      /\ pendingFrame = NoFrame /\ lastRequest = NoFrame /\ lastResponse = NoAnswer
  <2>1. ask \in Question
    <3>1. ask = NoAsk /\ Absent \in Files
      BY DEF Init, Files
    <3> QED BY <3>1, Zenon DEF NoAsk, Question
  <2>2. job \in Jobs
    BY DEF Init, NoJob, Jobs
  <2> QED BY <2>1, <2>2, Bounds DEF Init
<1>8. Line = {} /\ Heard = {} /\ toDevice \in Seq(Frames) /\ toHost \in Seq(Responses)
  BY <1>7, EmptyFacts DEF Line, Heard
<1>9. Typed
  <2>1. TypeOK
    BY <1>0, <1>3, <1>4, <1>5, <1>6, <1>7, <1>8 DEF TypeOK
  <2>2. DataInv
    BY <1>4, <1>6, <1>7, <1>8, NoFrameFacts DEF DataInv, Proper
  <2>3. HostInv
    BY <1>4, <1>7, NoFrameFacts DEF HostInv
  <2> QED BY <2>1, <2>2, <2>3 DEF Typed
<1>10. Local
  <2>1. MailInv
    BY <1>5, <1>6 DEF MailInv
  <2>2. SessionInv
    BY <1>5 DEF SessionInv
  <2>3. UploadInv
    BY <1>3, <1>6 DEF UploadInv
  <2>4. CacheInv
    BY <1>5, <1>7, NoFrameFacts, NoAnswerFacts DEF CacheInv
  <2> QED BY <2>1, <2>2, <2>3, <2>4 DEF Local
<1>11. OrderInv
  BY <1>7, EmptyOrder DEF OrderInv
<1>12. BoundInv
  BY <1>4, <1>5, <1>7, <1>8, NoFrameFacts DEF BoundInv, Bound
<1>13. SequenceInv
  BY <1>4, <1>7, <1>8, NoFrameFacts, LineSorted DEF SequenceInv
<1>14. Told
  <2>1. ExecutedInv
    BY <1>6, <1>7 DEF ExecutedInv
  <2>2. AnswerIsOwn
    BY <1>7, <1>8, NoAnswerFacts DEF AnswerIsOwn, Heard, Members
  <2> QED BY <2>1, <2>2 DEF Told
<1> QED BY <1>9, <1>10, <1>11, <1>12, <1>13, <1>14 DEF Inv

LEMMA NextKeeps == Inv /\ [Next]_vars => Inv'
<1> SUFFICES ASSUME Inv, [Next]_vars PROVE Inv'
  OBVIOUS
<1> USE DEF Inv
<1>1. CASE Receive
  BY <1>1, ReceiveTyped, ReceiveLocal, ReceiveOrder, ReceiveSequence, ReceiveTold DEF Local
<1>2. CASE Poll \/ StorageTask \/ MountAgain \/ PowerCut \/ Lose
  BY <1>2, DeviceTasksTyped, DeviceTasksLocal, DeviceTasksOrder, DeviceTasksSequence,
     DeviceTasksTold DEF Local
<1>3. CASE Host
  BY <1>3, HostActsTyped, HostActsLocal, HostActsOrder, HostActsSequence, HostActsTold
<1>4. CASE UNCHANGED vars
  <2>1. UNCHANGED <<host, job, toDevice, toHost, ft, pendingFrame, lastRequest, lastResponse,
                    slot, store, disk, cuts, executed, ask>>
    BY <1>4 DEF vars, hostVars, lineVars, deviceVars, storeVars
  <2>2. Typed'
    BY <2>1 DEF Typed, TypeOK, DataInv, HostInv, Proper, Line
  <2>3. Local'
    BY <2>1 DEF Local, MailInv, SessionInv, UploadInv, CacheInv
  <2>4. OrderInv' /\ BoundInv'
    BY <2>1, QuietOrder DEF Unbound, Heard
  <2>5. SequenceInv'
    BY <2>1, QuietSequence DEF InProgress, Heard
  <2>6. Told'
    BY <2>1, QuietExecuted, QuietOwn DEF Told, Heard
  <2> QED BY <2>2, <2>3, <2>4, <2>5, <2>6
<1> QED BY <1>1, <1>2, <1>3, <1>4 DEF Next

(* The inductive invariant of the protocol.                                  *)
THEOREM Inductive == Spec => []Inv
BY InitHolds, NextKeeps, PTL DEF Spec

(* Every variable of file_transfer.c, storage.c's mailbox, file_store.c, the  *)
(* line and the host keeps to the values its type allows.                     *)
THEOREM TypeCorrect == Spec => []TypeOK
<1>1. Inv => TypeOK
  BY DEF Inv, Typed
<1> QED BY <1>1, Inductive, PTL

(* Outside a session nothing of it is left in the mailbox or in the store.    *)
THEOREM ClosedOutside == Spec => []NothingLeftOpen
<1>1. Inv => NothingLeftOpen
  BY DEF Inv, Local, MailInv, UploadInv, NothingLeftOpen
<1> QED BY <1>1, Inductive, PTL

(* Whatever frames are lost, repeated or delayed, the request in the mailbox  *)
(* was not executed before.                                                   *)
THEOREM OnceOnly == Spec => []ExecutedOnce
<1>1. Inv => ExecutedOnce
  <2> SUFFICES ASSUME Inv, slot.from = "host", slot.state \in {"PENDING", "RUNNING"},
                      NEW m \in executed, m.session = slot.request.session,
                      m.sequence = slot.request.sequence
               PROVE  FALSE
    BY DEF ExecutedOnce, Stored
  <2>1. m.session = ft.session /\ m.sequence = ft.sequence /\ ft.sequence \in Nat
    BY FlagTypes DEF Inv, Typed, Local, MailInv
  <2> QED BY <2>1 DEF Inv, Told, ExecutedInv
<1> QED BY <1>1, Inductive, PTL

(* An OK on its way to the host or in the cache is the result of that very    *)
(* request.                                                                   *)
THEOREM OwnAnswer == Spec => []AnswerIsOwn
<1>1. Inv => AnswerIsOwn
  BY DEF Inv, Told
<1> QED BY <1>1, Inductive, PTL

-----------------------------------------------------------------------------
(* The file changes only as the host asked: what the refinement needs *)

Mutates(f) == f.op \in Mutations

(* The store has the result of the host's request, debugTask has not.         *)
Finished == slot.from = "host" /\ slot.state = "COMPLETE"
InMailbox == IF slot.from = "host" /\ slot.state # "COMPLETE" THEN {slot.request} ELSE {}

(* Requests that may still change the file.                                   *)
Pend == {f \in Line \cup {host.frame} \cup InMailbox :
           /\ Mutates(f) /\ ft.active = "on" /\ ft.session # 0 /\ ~Finished
           /\ f.session = ft.session /\ f.sequence = ft.sequence}

(* What has been sent and answered of the running invocation.                 *)
SentInv ==
  host.phase = "wait" =>
    /\ \A m \in Heard \cup {lastResponse} : m.session = host.session => m.sequence <= host.frame.sequence
    /\ pendingFrame.session = host.session => pendingFrame.sequence <= host.frame.sequence
    /\ \A f \in Line : f.op = "BEGIN" /\ f.session = host.session => f.data = job.content
    /\ slot.from = "host" /\ slot.request.op = "BEGIN" /\ slot.request.session = host.session
         => slot.request.data = job.content

(* The upload the store holds is the one of the invocation that waits.        *)
OwnUpload ==
  /\ store.upload => ft.session # 0
  /\ host.phase = "wait" /\ host.session = ft.session /\ store.upload => store.declared = job.content

AskInv ==
  /\ ask.told = "waiting" <=> Mutates(host.frame)
  /\ host.frame.op = "COMMIT" => ask.target = job.content
  /\ host.frame.op = "REMOVE" => ask.target = Absent

PendInv ==
  \A f \in Pend : /\ ask.told \in {"waiting", "unknown"} /\ ~ask.applied
                  /\ f.op = "REMOVE" => ask.target = Absent
                  /\ f.op = "COMMIT" /\ store.upload => store.declared = ask.target

Confirms(m) == /\ m.final /\ m.ok /\ m.op = host.frame.op
               /\ m.session = host.frame.session /\ m.sequence = host.frame.sequence

(* The host is told OK only of what has been applied.                         *)
AppliedInv ==
  Mutates(host.frame) =>
    /\ \A m \in Heard \cup {lastResponse} : Confirms(m) => ask.applied
    /\ Finished /\ Confirms(Final(slot.request, slot.ok)) => ask.applied

LEMMA HeardGrows ==
  ASSUME Typed, NEW m \in Responses, Reply(m)
  PROVE  Heard' \subseteq Heard \cup {m}
BY ReplyFacts DEF Heard, Typed, TypeOK

(* The number of something the device answers or keeps is one the host sent.  *)
FromHost(m) == \/ m.session = 0
               \/ \E f \in Line \cup {pendingFrame, lastResponse} :
                    m.session = f.session /\ m.sequence = f.sequence

(* Not an answer that says a mutation is done.                                *)
Harmless(m) == m.op \notin StoreOps \/ ~m.final \/ ~m.ok

LEMMA DeviceSent ==
  ASSUME Typed, SequenceInv, SentInv, host' = host, job' = job, Line' \subseteq Line,
         \A m \in Heard' \cup {lastResponse'} : m \in Heard \/ FromHost(m),
         FromHost(pendingFrame'),
         slot'.from = "host" => \/ slot.from = "host" /\ slot'.request = slot.request
                                \/ slot'.request \in Line
  PROVE  SentInv'
<1> SUFFICES ASSUME host.phase = "wait" PROVE SentInv'
  BY DEF SentInv
<1>1. host.session # 0
  BY DEF Typed, HostInv
<1>2. \A m : FromHost(m) /\ m.session = host.session => m.sequence <= host.frame.sequence
  BY <1>1 DEF FromHost, SentInv, SequenceInv
<1>3. \A m \in Heard' \cup {lastResponse'} : m.session = host.session => m.sequence <= host.frame.sequence
  BY <1>2 DEF SentInv
<1>4. \A f \in Line' : f.op = "BEGIN" /\ f.session = host.session => f.data = job.content
  BY DEF SentInv
<1>5. slot'.from = "host" /\ slot'.request.op = "BEGIN" /\ slot'.request.session = host.session
        => slot'.request.data = job.content
  BY DEF SentInv
<1> QED BY <1>2, <1>3, <1>4, <1>5 DEF SentInv

LEMMA DeviceRest ==
  ASSUME OwnUpload, AskInv, PendInv, host' = host, job' = job, ask' = ask,
         store'.upload => store.upload /\ store'.declared = store.declared /\ ft'.session = ft.session,
         Pend' \subseteq Pend
  PROVE  OwnUpload' /\ AskInv' /\ PendInv'
<1>1. OwnUpload'
  BY DEF OwnUpload
<1>2. AskInv'
  BY DEF AskInv, Mutates
<1>3. PendInv'
  <2> SUFFICES ASSUME NEW f \in Pend'
               PROVE  /\ ask'.told \in {"waiting", "unknown"} /\ ~ask'.applied
                      /\ f.op = "REMOVE" => ask'.target = Absent
                      /\ f.op = "COMMIT" /\ store'.upload => store'.declared = ask'.target
    BY DEF PendInv
  <2>1. f \in Pend
    OBVIOUS
  <2> HIDE DEF Pend
  <2> QED BY <2>1 DEF PendInv
<1> QED BY <1>1, <1>2, <1>3

LEMMA DeviceApplied ==
  ASSUME AppliedInv, host' = host, ask.applied => ask'.applied,
         \A m \in Heard' \cup {lastResponse'} : m \in Heard \cup {lastResponse} \/ Harmless(m),
         Finished' => Finished /\ slot' = slot
  PROVE  AppliedInv'
<1>1. \A m : Confirms(m)' <=> Confirms(m)
  BY DEF Confirms
<1>2. \A m : Mutates(host.frame) /\ Confirms(m) => ~Harmless(m)
  BY DEF Confirms, Harmless, Mutates, Mutations, StoreOps
<1> QED BY <1>1, <1>2 DEF AppliedInv, Mutates, Finished, Confirms

(* When no request is left that may change the file, or the same ones.        *)
LEMMA PendEmpty ==
  ASSUME ft'.active # "on" \/ ft'.session = 0 \/ Finished'
  PROVE  Pend' = {}
BY DEF Pend

LEMMA PendQuiet ==
  ASSUME host' = host, Line' \subseteq Line,
         ft'.active = ft.active, ft'.session = ft.session, ft'.sequence = ft.sequence,
         ~Finished' => ~Finished, InMailbox' \subseteq InMailbox \cup Line
  PROVE  Pend' \subseteq Pend
<1> SUFFICES ASSUME NEW f \in Pend' PROVE f \in Pend
  OBVIOUS
<1>1. f \in Line' \cup {host.frame} \cup InMailbox'
  BY DEF Pend
<1>2. f \in Line \cup {host.frame} \cup InMailbox
  BY <1>1
<1> QED BY <1>2 DEF Pend, Mutates

(* A session that goes on to its next number has answered all that was sent.  *)
LEMMA PendAdvanced ==
  ASSUME host' = host, NEW f, f.sequence # ft'.sequence, slot'.from # "host",
         \A g \in Line' \cup {host.frame} : g.session # 0 /\ g.session = ft'.session => g = f
  PROVE  Pend' = {}
BY DEF Pend, InMailbox

-----------------------------------------------------------------------------
(* A line of text *)

Text == (\E f \in Line : f.op = "TEXT") \/ slot.from = "text"

LEMMA DeviceText ==
  ASSUME Typed, TypedInv, host' = host,
         \/ toDevice' \in {toDevice, <<>>}
         \/ toDevice # <<>> /\ toDevice' = Tail(toDevice),
         Text' => Text /\ ft'.active = "off" /\ \A m \in Heard' : m.op # "ENTER"
  PROVE  TypedInv'
<1>1. \A i \in DOMAIN toDevice' : toDevice'[i].op = "TEXT" => i = 1
  <2>1. CASE toDevice' = toDevice
    BY <2>1 DEF TypedInv
  <2>2. CASE toDevice' = <<>>
    BY <2>2, EmptyFacts
  <2>3. CASE toDevice # <<>> /\ toDevice' = Tail(toDevice)
    <3>1. \A i \in DOMAIN toDevice' : i \in Nat /\ i >= 1 /\ i + 1 \in DOMAIN toDevice
                                     /\ toDevice'[i] = toDevice[i + 1]
      BY <2>3, TailFacts DEF Typed, TypeOK
    <3> QED BY <3>1 DEF TypedInv
  <2> QED BY <2>1, <2>2, <2>3
<1> QED BY <1>1 DEF TypedInv, Text

(* Once the head of the line is gone no text is left on it.                   *)
LEMMA TextTaken ==
  ASSUME Typed, TypedInv, toDevice # <<>>, toDevice' = Tail(toDevice)
  PROVE  /\ \A f \in Line' : f.op # "TEXT"
         /\ Head(toDevice).op # "TEXT" => \A f \in Line : f.op # "TEXT"
<1>1. /\ \A i \in DOMAIN toDevice' : i \in Nat /\ i >= 1 /\ i + 1 \in DOMAIN toDevice
                                     /\ toDevice'[i] = toDevice[i + 1]
      /\ 1 \in DOMAIN toDevice /\ toDevice[1] = Head(toDevice)
  BY TailFacts DEF Typed, TypeOK
<1>2. \A i \in DOMAIN toDevice' : toDevice'[i].op # "TEXT"
  BY <1>1 DEF TypedInv
<1>3. Head(toDevice).op # "TEXT" => \A i \in DOMAIN toDevice : toDevice[i].op # "TEXT"
  BY <1>1 DEF TypedInv
<1> QED BY <1>2, <1>3 DEF Line, Members

LEMMA ReceiveText == Typed /\ Local /\ TypedInv /\ Receive => TypedInv'
<1> SUFFICES ASSUME Typed, Local, TypedInv, Receive PROVE TypedInv'
  OBVIOUS
<1> DEFINE f == Head(toDevice)
<1>0. toDevice # <<>> /\ toDevice' = Tail(toDevice)
  BY DEF Receive
<1>1. /\ \A g \in Line' : g.op # "TEXT"
      /\ f.op # "TEXT" => \A g \in Line : g.op # "TEXT"
      /\ f \in Line /\ f \in Frames
  BY <1>0, TextTaken, ReceiveFacts
<1>2. \/ Enter(f) \/ TextCommand(f) \/ ConsoleRefuses(f)
      \/ Hello(f) \/ Ignore(f) \/ AnswerAgain(f) \/ TurnAway(f)
      \/ AnswerAtOnce(f) \/ Exit(f) \/ Submit(f)
  BY DEF Receive
<1> HIDE DEF f
<1>20. TypeOK
  BY DEF Typed
<1> USE DEF hostVars, deviceVars, storeVars
<1>3. CASE Enter(f)
  <2>1. slot.from = "none" /\ slot' = slot /\ host' = host
    BY <1>3, EmptySlot DEF Enter, FtBusy, Local
  <2>2. ~Text'
    BY <1>1, <2>1 DEF Text
  <2> QED BY <1>0, <2>1, <2>2, DeviceText
<1>4. CASE TextCommand(f)
  <2>1. Text /\ ft'.active = "off" /\ UNCHANGED <<host, toHost>>
    BY <1>1, <1>4, <1>20, TextCommandFacts DEF TextCommand, FtBecomes, Text
  <2> QED BY <1>0, <2>1, DeviceText DEF TypedInv, Text, Heard
<1>5. CASE ConsoleRefuses(f)
  <2>1. UNCHANGED <<host, toHost, ft, slot>>
    BY <1>5 DEF ConsoleRefuses
  <2>2. Text' => Text
    BY <1>1, <2>1 DEF Text
  <2> QED BY <1>0, <2>1, <2>2, DeviceText DEF TypedInv, Text, Heard
<1>6. ASSUME ft.active # "off", host' = host, slot'.from \in {slot.from, "host"}
      PROVE  TypedInv'
  <2>1. slot.from # "text"
    BY <1>6 DEF TypedInv
  <2>2. ~Text'
    BY <1>1, <1>6, <2>1 DEF Text
  <2> QED BY <1>0, <1>6, <2>2, DeviceText
<1>7. CASE Hello(f) \/ Ignore(f) \/ AnswerAgain(f) \/ TurnAway(f) \/ AnswerAtOnce(f) \/ Exit(f)
  BY <1>6, <1>7 DEF Hello, Ignore, AnswerAgain, TurnAway, AnswerAtOnce, Exit, Repeats, InTurn, New, Ours
<1>12. CASE Submit(f)
  <2>1. slot.state = "IDLE"
    BY <1>12 DEF Submit, InTurn, FtBusy, Local, MailInv
  <2>2. slot'.from = "host" /\ host' = host /\ ft.active # "off"
    BY <1>1, <1>12, <1>20, <2>1, SubmitFacts DEF Submit, SlotBecomes, InTurn, New, Ours
  <2> QED BY <1>6, <2>2
<1> QED BY <1>2, <1>3, <1>4, <1>5, <1>7, <1>12

LEMMA DeviceTasksText ==
  Typed /\ Local /\ TypedInv /\ (Poll \/ StorageTask \/ MountAgain \/ PowerCut \/ Lose) => TypedInv'
<1> SUFFICES ASSUME Typed, Local, TypedInv, Poll \/ StorageTask \/ MountAgain \/ PowerCut \/ Lose
             PROVE  TypedInv'
  OBVIOUS
<1> USE DEF hostVars, lineVars, deviceVars, storeVars
<1>0. TypeOK /\ ft.cleanup \in 0..2
  BY DEF Typed, TypeOK, Transfer
<1>1. ASSUME ft.active # "off", UNCHANGED <<host, toDevice>>, slot'.from # "text"
      PROVE  TypedInv'
  BY <1>1, DeviceText DEF TypedInv, Text, Line
<1>2. ASSUME UNCHANGED <<host, toDevice>>, slot'.from = slot.from, ft'.active = ft.active,
             toHost' = toHost
      PROVE  TypedInv'
  BY <1>2, DeviceText DEF TypedInv, Text, Line, Heard
<1>3. CASE CompleteBinary
  <2>1. slot'.from = "none" /\ UNCHANGED <<host, toDevice>>
    BY <1>0, <1>3, CompleteBinaryFacts DEF CompleteBinary, SlotBecomes
  <2>2. ft.active # "off"
    BY <1>0, <1>3 DEF CompleteBinary, TakeResult, Local, MailInv, SessionInv
  <2> QED BY <1>1, <2>1, <2>2
<1>4. CASE CompleteText
  <2>1. slot.from = "text" /\ slot'.from \in {"text", "none"} /\ ft'.active = ft.active
        /\ UNCHANGED <<host, toDevice, toHost>>
    <3>1. slot.from = "text"
      BY <1>4 DEF CompleteText, Local, MailInv, SessionInv
    <3> QED BY <1>0, <1>4, <3>1, CompleteTextFacts DEF CompleteText, FtBecomes, SlotBecomes
  <2>2. Text /\ (Text => ft.active = "off" /\ \A m \in Heard : m.op # "ENTER")
    BY <2>1 DEF Text, TypedInv
  <2> QED BY <2>1, <2>2, DeviceText DEF Heard
<1>5. CASE FinishCleanup
  <2>1. slot'.from = "none" /\ UNCHANGED <<host, toDevice>>
    BY <1>0, <1>5, FinishCleanupFacts DEF FinishCleanup, SlotBecomes
  <2>2. ft.active # "off"
    BY <1>5 DEF FinishCleanup, Local, SessionInv
  <2> QED BY <1>1, <2>1, <2>2
<1>6. CASE Progress
  <2>1. ft.pending /\ ft.binary /\ UNCHANGED <<host, toDevice, slot>>
    BY <1>6 DEF Progress
  <2>2. slot.from \in {"host", "cleanup"} /\ ft.active # "off"
    BY <2>1 DEF Local, MailInv
  <2> QED BY <1>1, <2>1, <2>2
<1>7. CASE LingerExpires
  <2>1. ft.active # "off" /\ slot.from # "text" /\ UNCHANGED <<host, toDevice, slot>>
    BY <1>7 DEF LingerExpires, Local, MailInv
  <2> QED BY <1>1, <2>1
<1>8. CASE StartCleanup
  <2>1. slot'.from = "cleanup" /\ ft.active # "off" /\ UNCHANGED <<host, toDevice>>
    BY <1>0, <1>8, StartCleanupFacts DEF StartCleanup, SlotBecomes
  <2> QED BY <1>1, <2>1
<1>9. CASE StorageTask
  <2>1. slot'.from = slot.from
    BY <1>9, StorageTaskFacts DEF Typed, Local, SlotBecomes
  <2> QED BY <1>2, <1>9, <2>1 DEF StorageTask
<1>10. CASE MountAgain
  BY <1>2, <1>10 DEF MountAgain
<1>11. CASE PowerCut
  <2>1. slot'.from = "none" /\ toDevice' = <<>> /\ host' = host
    BY <1>11, SlotIdleFacts DEF PowerCut, SlotBecomes
  <2>2. ~Text'
    BY <2>1, EmptyFacts DEF Text, Line
  <2> QED BY <2>1, <2>2, DeviceText
<1>12. CASE Lose
  <2>1. UNCHANGED <<host, ft, slot>> /\ \A m \in Heard' : m \in Heard
    BY <1>0, <1>12, TailFacts DEF Lose, TypeOK, Heard
  <2>2. toDevice' = toDevice \/ (toDevice # <<>> /\ toDevice' = Tail(toDevice))
    BY <1>12 DEF Lose
  <2>3. Line' \subseteq Line
    BY <1>0, <2>2, TailFacts DEF Line, TypeOK
  <2>4. Text' => Text
    BY <2>1, <2>3 DEF Text
  <2> QED BY <2>1, <2>2, <2>4, DeviceText DEF TypedInv, Text
<1> QED BY <1>3, <1>4, <1>5, <1>6, <1>7, <1>8, <1>9, <1>10, <1>11, <1>12 DEF Poll

LEMMA SentText ==
  ASSUME Typed, TypedInv, NEW g \in Frames, g.op # "TEXT", toDevice' = Sent(toDevice, g)
  PROVE  /\ \A i \in DOMAIN toDevice' : toDevice'[i].op = "TEXT" => i = 1
         /\ \A f \in Line' : f.op = "TEXT" => f \in Line
<1>0. toDevice \in Seq(Frames)
  BY DEF Typed, TypeOK
<1>1. Line' \subseteq Line \cup {g}
  BY <1>0, SentFacts DEF Line
<1>2. CASE toDevice' = toDevice
  BY <1>1, <1>2 DEF TypedInv
<1>3. CASE toDevice' = Append(toDevice, g)
  <2>1. \A i \in DOMAIN toDevice' : \/ i \in DOMAIN toDevice /\ toDevice'[i] = toDevice[i]
                                   \/ toDevice'[i] = g
    BY <1>0, <1>3, AppendFacts
  <2>2. \A i \in DOMAIN toDevice' : toDevice'[i].op = "TEXT" => i = 1
    BY <2>1 DEF TypedInv
  <2>3. \A f \in Line' : f.op = "TEXT" => f \in Line
    BY <1>1
  <2> QED BY <2>2, <2>3
<1> QED BY <1>2, <1>3 DEF Sent

LEMMA HostActsText == Typed /\ Local /\ TypedInv /\ Host => TypedInv'
<1> SUFFICES ASSUME Typed, Local, TypedInv, Host PROVE TypedInv'
  OBVIOUS
<1>0. TypeOK /\ HostInv /\ toHost \in Seq(Responses) /\ job \in Jobs /\ host.frame \in Frames
  BY FlagTypes DEF Typed, TypeOK
<1>00. UNCHANGED <<ft, slot>>
  BY HostFrame DEF deviceVars
<1>1. CASE Type
  <2>1. PICK at \in {0, 1} : toDevice' = Sent(toDevice, Request("TEXT", 0, 0, at, <<>>))
    BY <1>1 DEF Type
  <2>2. host.phase = "rest" /\ toDevice = <<>> /\ ft.active = "off" /\ UNCHANGED <<host, toHost>>
        /\ toHost = <<>>
    BY <1>0, <1>1 DEF Type, hostVars, HostInv
  <2>3. \A i \in DOMAIN toDevice' : i = 1
    BY <2>1, <2>2 DEF Sent
  <2> QED BY <1>00, <2>2, <2>3, EmptyFacts DEF TypedInv, Heard
<1>2. ASSUME NEW g \in Frames, g.op # "TEXT", toDevice' = Sent(toDevice, g),
             Members(toHost') \subseteq Heard, ~Text \/ host'.phase # "wait"
      PROVE  TypedInv'
  <2>1. /\ \A i \in DOMAIN toDevice' : toDevice'[i].op = "TEXT" => i = 1
        /\ Text' => Text
    BY <1>00, <1>2, SentText DEF Text
  <2> QED BY <1>00, <1>2, <2>1 DEF TypedInv, Text, Heard
<1>3. ASSUME toDevice' = toDevice, Members(toHost') \subseteq Heard,
             host'.phase = host.phase \/ host'.phase # "wait"
      PROVE  TypedInv'
  BY <1>00, <1>3 DEF TypedInv, Line, Heard
<1>4. ASSUME NEW j \in Jobs, Start(j)
      PROVE  TypedInv'
  <2> DEFINE g == Request("ENTER", 0, 0, 0, <<>>)
  <2>1. HostBecomes("enter", host.session + 1, NoFrame) /\ g \in Frames
        /\ toDevice' = Sent(toDevice, g)
    BY <1>0, <1>4, StartFacts
  <2>2. g.op = "ENTER"
    BY RequestFacts
  <2> HIDE DEF g
  <2> QED BY <1>2, <1>4, <2>1, <2>2 DEF Start, HostBecomes, Heard
<1>5. CASE Entered
  <2> DEFINE g == Request("HELLO", host.session, 0, 0, <<>>)
  <2>1. g \in Frames /\ toDevice' = Sent(toDevice, g)
    BY <1>0, <1>5, EnteredFacts
  <2>2. g.op = "HELLO"
    BY RequestFacts
  <2> HIDE DEF g
  <2>3. Head(toHost) \in Heard /\ Members(toHost') \subseteq Heard /\ Head(toHost).op = "ENTER"
    BY <1>0, <1>5, TailFacts DEF Entered, Heard
  <2>4. ~Text
    BY <2>3 DEF Text, TypedInv
  <2> QED BY <1>2, <2>1, <2>2, <2>3, <2>4
<1>6. CASE Skip
  BY <1>0, <1>3, <1>6, TailFacts DEF Skip, hostVars, Heard
<1>7. CASE Retry
  <2>1. host.frame.op # "TEXT" /\ ~Text /\ toDevice' = Sent(toDevice, host.frame) /\ toHost' = toHost
    BY <1>0, <1>7 DEF Retry, HostInv, Typed, DataInv, Proper, TypedInv, Text
  <2> QED BY <1>0, <1>2, <2>1 DEF Heard
<1>8. CASE GiveUp
  <2>1. host'.phase = "rest"
    BY <1>0, <1>8, RestFacts DEF GiveUp, HostBecomes
  <2> QED BY <1>3, <1>8, <2>1, EmptyFacts DEF GiveUp
<1>9. CASE Answered
  <2>1. host.phase = "wait" /\ toHost # <<>>
    BY <1>9, Zenon DEF Answered
  <2>2. CASE HostBecomes("rest", host.session, NoFrame) /\ toHost' = <<>> /\ toDevice' = toDevice
    BY <1>3, <2>2, EmptyFacts DEF HostBecomes
  <2>3. ASSUME NEW g \in Frames, toDevice' = Sent(toDevice, g), toHost' = Tail(toHost),
               g.op \in HostOps
        PROVE  TypedInv'
    <3>1. ~Text
      BY <2>1 DEF Text, TypedInv
    <3>2. Members(toHost') \subseteq Heard
      BY <1>0, <2>1, <2>3, TailFacts DEF Heard
    <3> QED BY <1>2, <2>3, <3>1, <3>2 DEF HostOps
  <2>4. NextOp(host.frame, Head(toHost).ok) \in HostOps
    BY <1>0, NextOpFacts DEF Frames
  <2> QED BY <1>0, <1>9, <2>2, <2>3, <2>4, AnsweredFacts
<1> QED BY <1>1, <1>4, <1>5, <1>6, <1>7, <1>8, <1>9 DEF Host

-----------------------------------------------------------------------------
(* The steps of the refinement's invariant *)

Base == Typed /\ Local /\ BoundInv /\ SequenceInv
Asked == SentInv /\ OwnUpload /\ AskInv /\ PendInv /\ AppliedInv

LEMMA ReceiveAsked == Base /\ Asked /\ Receive => Asked'
<1> SUFFICES ASSUME Typed, Local, BoundInv, SequenceInv,
                    SentInv, OwnUpload, AskInv, PendInv, AppliedInv, Receive
             PROVE  SentInv' /\ OwnUpload' /\ AskInv' /\ PendInv' /\ AppliedInv'
  BY DEF Asked, Base
<1> DEFINE f == Head(toDevice)
<1>0. toDevice # <<>> /\ toDevice' = Tail(toDevice)
  BY DEF Receive
<1>1. f \in Frames /\ f \in Line /\ Proper(f) /\ f.op # "none" /\ f.session \in 0..Sessions
      /\ Line' \subseteq Line
  BY <1>0, ReceiveFacts
<1>2. \/ Enter(f) \/ TextCommand(f) \/ ConsoleRefuses(f)
      \/ Hello(f) \/ Ignore(f) \/ AnswerAgain(f) \/ TurnAway(f)
      \/ AnswerAtOnce(f) \/ Exit(f) \/ Submit(f)
  BY DEF Receive
<1>21. InTurn(f) => /\ slot.state = "IDLE" /\ slot.from = "none"
                    /\ f.sequence = ft.sequence
                    /\ \A g \in Line' \cup {host.frame} : g.session = ft.session => g = f
  <2>1. InTurn(f) => slot.state = "IDLE" /\ slot.from = "none"
    BY EmptySlot DEF InTurn, FtBusy, Local
  <2> QED BY <1>0, <2>1, NextInTurn DEF InTurn
<1> HIDE DEF f
<1>20. /\ TypeOK /\ ft.sequence \in Nat /\ Heard \subseteq Responses
       /\ lastResponse \in Responses /\ f.session \in Nat
       /\ FromHost(pendingFrame) /\ FromHost(lastResponse) /\ FromHost(f)
       /\ NoFrame.session = 0 /\ NoAnswer.session = 0 /\ ~NoAnswer.final
  <2>1. Heard \subseteq Responses
    BY MembersType DEF Typed, TypeOK, Heard
  <2>2. FromHost(pendingFrame) /\ FromHost(lastResponse) /\ FromHost(f)
    BY <1>1 DEF FromHost
  <2> QED BY <1>1, <2>1, <2>2, FlagTypes, NoFrameFacts, NoAnswerFacts DEF Typed, Frames, TypeOK
<1>22. ASSUME UNCHANGED <<host, job, store, ask>>, Pend' \subseteq Pend,
              ft'.session = ft.session \/ ~store.upload
       PROVE  OwnUpload' /\ AskInv' /\ PendInv'
  BY <1>22, DeviceRest
<1>23. ASSUME NEW m \in Responses, NEW g \in Frames, m.session = g.session, m.sequence = g.sequence,
              FromHost(g)
       PROVE  FromHost(m)
  BY <1>23 DEF FromHost
<1> USE DEF hostVars, deviceVars, storeVars
<1>3. CASE Enter(f)
  <2>1. /\ ft'.session = 0 /\ UNCHANGED <<host, job, slot, store, ask>> /\ Reply(Final(f, TRUE))
        /\ lastResponse' = NoAnswer /\ pendingFrame' = NoFrame /\ f.op = "ENTER"
        /\ ft.active = "off"
    BY <1>3, OnFacts DEF Enter, FtBecomes, Forget
  <2>2. Final(f, TRUE) \in Responses /\ Harmless(Final(f, TRUE)) /\ FromHost(Final(f, TRUE))
    BY <1>1, <1>20, <1>23, <2>1, FinalFacts DEF StoreOps, Harmless
  <2>3. Heard' \subseteq Heard \cup {Final(f, TRUE)}
    BY <2>1, <2>2, HeardGrows
  <2>4. SentInv'
    BY <1>1, <1>20, <2>1, <2>2, <2>3, DeviceSent DEF FromHost
  <2>5. Pend' \subseteq Pend /\ ~store.upload
    BY <2>1, PendEmpty DEF Local, UploadInv
  <2>6. AppliedInv'
    BY <1>20, <2>1, <2>2, <2>3, DeviceApplied DEF Harmless, Finished
  <2> QED BY <1>22, <2>1, <2>4, <2>5, <2>6
<1>4. CASE TextCommand(f)
  <2>1. /\ ft'.active = "off" /\ ft'.session = ft.session /\ slot'.state = "PENDING"
        /\ slot'.from = "text"
        /\ UNCHANGED <<host, job, toHost, store, ask, lastResponse, pendingFrame>>
    BY <1>4, <1>20, TextCommandFacts DEF TextCommand, FtBecomes, SlotBecomes
  <2>2. SentInv'
    BY <1>1, <1>20, <2>1, DeviceSent DEF Heard
  <2>3. Pend' \subseteq Pend
    BY <2>1, PendEmpty
  <2>4. AppliedInv'
    BY <2>1, DeviceApplied DEF Heard, Finished
  <2> QED BY <1>22, <2>1, <2>2, <2>3, <2>4
<1>5. ASSUME UNCHANGED <<host, job, ft, slot, store, ask, pendingFrame, lastResponse>>,
             \A m \in Heard' : m \in Heard \cup {lastResponse} \/ (Harmless(m) /\ FromHost(m))
      PROVE  SentInv' /\ OwnUpload' /\ AskInv' /\ PendInv' /\ AppliedInv'
  <2>1. SentInv'
    BY <1>1, <1>5, <1>20, DeviceSent
  <2>2. Pend' \subseteq Pend
    BY <1>1, <1>5, PendQuiet DEF Finished, InMailbox
  <2>3. AppliedInv'
    BY <1>5, DeviceApplied DEF Finished
  <2> QED BY <1>5, <1>22, <2>1, <2>2, <2>3
<1>6. CASE ConsoleRefuses(f) \/ Ignore(f)
  <2>1. UNCHANGED <<host, job, ft, slot, store, ask, pendingFrame, lastResponse, toHost>>
    BY <1>6 DEF ConsoleRefuses, Ignore
  <2> QED BY <1>5, <2>1 DEF Heard
<1>7. CASE Hello(f)
  <2>1. /\ ft.session = 0 /\ f.op = "HELLO" /\ f.session # 0 /\ Unbound
        /\ UNCHANGED <<host, job, slot, store, ask, pendingFrame>>
        /\ ft'.session = f.session
        /\ lastResponse' = Final(f, TRUE) /\ Reply(Final(f, TRUE))
    <3>1. ft'.session = f.session
      BY <1>1, <1>7, <1>20, HelloFacts DEF FtBecomes
    <3> QED BY <1>1, <1>7, <3>1 DEF Hello, Proper, Unbound
  <2>2. ~Bound(f.session)
    BY <1>1, <1>20, <2>1 DEF BoundInv, Closed
  <2>3. Final(f, TRUE) \in Responses /\ Harmless(Final(f, TRUE)) /\ FromHost(Final(f, TRUE))
    BY <1>1, <1>20, <1>23, <2>1, FinalFacts DEF StoreOps, Harmless
  <2>4. Heard' \subseteq Heard \cup {Final(f, TRUE)}
    BY <2>1, <2>3, HeardGrows
  <2>5. SentInv'
    BY <1>1, <1>20, <2>1, <2>3, <2>4, DeviceSent
  <2>6. slot'.from # "host"
    BY <2>1 DEF Local, MailInv
  <2>7. Pend' = {}
    <3>1. \A g \in Line' \cup {host.frame} : g.session = f.session => ~Mutates(g)
      BY <1>1, <2>1, <2>2 DEF Bound, Mutates, Mutations
    <3> QED BY <2>1, <2>6, <3>1 DEF Pend, InMailbox
  <2>8. ~store.upload
    BY <2>1 DEF OwnUpload
  <2>9. AppliedInv'
    BY <2>1, <2>3, <2>4, DeviceApplied DEF Finished
  <2> QED BY <1>22, <2>1, <2>5, <2>7, <2>8, <2>9
<1>8. CASE AnswerAgain(f)
  <2>1. /\ UNCHANGED <<host, job, ft, slot, store, ask, pendingFrame, lastResponse>>
        /\ Reply(lastResponse)
    BY <1>8 DEF AnswerAgain
  <2>2. Heard' \subseteq Heard \cup {lastResponse}
    BY <1>20, <2>1, HeardGrows
  <2> QED BY <1>5, <2>1, <2>2
<1>9. CASE TurnAway(f)
  <2>1. PICK m \in {Busy(f), Final(f, FALSE)} : Reply(m)
    BY <1>9 DEF TurnAway
  <2>2. m \in Responses /\ Harmless(m) /\ FromHost(m)
    <3>1. m \in Responses /\ m.session = f.session /\ m.sequence = f.sequence /\ ~m.ok
      BY <1>1, <2>1, BusyFacts, FinalFacts
    <3> QED BY <1>1, <1>20, <1>23, <3>1 DEF Harmless
  <2>3. Heard' \subseteq Heard \cup {m}
    BY <2>1, <2>2, HeardGrows
  <2>4. UNCHANGED <<host, job, ft, slot, store, ask, pendingFrame, lastResponse>>
    BY <1>9 DEF TurnAway
  <2> QED BY <1>5, <2>2, <2>3, <2>4
<1>10. CASE AnswerAtOnce(f)
  <2>1. PICK ok \in BOOLEAN : lastResponse' = Final(f, ok) /\ Reply(Final(f, ok))
    BY <1>10 DEF AnswerAtOnce
  <2>2. /\ ft'.session = ft.session /\ ft'.sequence = ft.sequence + 1
        /\ UNCHANGED <<host, job, slot, store, ask>> /\ f.op \in {"STATUS", "REFUSED"} /\ InTurn(f)
        /\ pendingFrame' = f
    BY <1>1, <1>10, <1>20, AnswerAtOnceFacts DEF AnswerAtOnce, FtBecomes
  <2>3. Final(f, ok) \in Responses /\ Harmless(Final(f, ok)) /\ FromHost(Final(f, ok))
    BY <1>1, <1>20, <1>23, <2>2, FinalFacts DEF StoreOps, Harmless
  <2>4. Heard' \subseteq Heard \cup {Final(f, ok)}
    BY <2>1, <2>3, HeardGrows
  <2>5. SentInv'
    BY <1>1, <1>20, <2>1, <2>2, <2>3, <2>4, DeviceSent
  <2>6. Pend' = {}
    <3>1. f.sequence # ft'.sequence /\ slot'.from # "host"
      BY <1>20, <1>21, <2>2
    <3> QED BY <1>21, <2>2, <3>1, PendAdvanced
  <2>7. AppliedInv'
    BY <2>1, <2>2, <2>3, <2>4, DeviceApplied DEF Finished
  <2> QED BY <1>22, <2>2, <2>5, <2>6, <2>7
<1>11. CASE Exit(f)
  <2>1. /\ ft'.session = ft.session /\ ft'.sequence = ft.sequence /\ ft'.active = ft.active
        /\ UNCHANGED <<host, job, toHost, slot, store, ask, lastResponse>> /\ pendingFrame' = f
    BY <1>1, <1>11, <1>20, ExitFacts DEF Exit, FtBecomes
  <2>2. SentInv'
    BY <1>1, <1>20, <2>1, DeviceSent DEF Heard
  <2>3. Pend' \subseteq Pend
    BY <1>1, <2>1, PendQuiet DEF Finished, InMailbox
  <2>4. AppliedInv'
    BY <2>1, DeviceApplied DEF Heard, Finished
  <2> QED BY <1>22, <2>1, <2>2, <2>3, <2>4
<1>12. CASE Submit(f)
  <2>1. slot.state = "IDLE" /\ slot.from = "none"
    BY <1>12, <1>21 DEF Submit
  <2>2. /\ ft'.session = ft.session /\ ft'.sequence = ft.sequence /\ ft'.active = ft.active
        /\ slot'.state = "PENDING" /\ slot'.request = f
        /\ UNCHANGED <<host, job, store, ask, lastResponse>> /\ Reply(Busy(f)) /\ pendingFrame' = f
    BY <1>1, <1>12, <1>20, <2>1, SubmitFacts DEF Submit, FtBecomes, SlotBecomes
  <2>3. Busy(f) \in Responses /\ Harmless(Busy(f)) /\ FromHost(Busy(f))
    BY <1>1, <1>20, <1>23, BusyFacts DEF Harmless
  <2>4. Heard' \subseteq Heard \cup {Busy(f)}
    BY <2>2, <2>3, HeardGrows
  <2>5. SentInv'
    BY <1>1, <1>20, <2>2, <2>3, <2>4, DeviceSent
  <2>6. Pend' \subseteq Pend
    BY <1>1, <2>1, <2>2, PendQuiet DEF Finished, InMailbox
  <2>7. AppliedInv'
    BY <2>2, <2>3, <2>4, DeviceApplied DEF Finished
  <2> QED BY <1>22, <2>2, <2>5, <2>6, <2>7
<1> QED BY <1>2, <1>3, <1>4, <1>6, <1>7, <1>8, <1>9, <1>10, <1>11, <1>12

LEMMA StorageTaskAsked == Base /\ Asked /\ StorageTask => Asked'
<1> SUFFICES ASSUME Typed, Local, BoundInv, SequenceInv,
                    SentInv, OwnUpload, AskInv, PendInv, AppliedInv, StorageTask
             PROVE  SentInv' /\ OwnUpload' /\ AskInv' /\ PendInv' /\ AppliedInv'
  BY DEF Asked, Base
<1>0. PICK o :
         /\ CallFacts(store, disk, slot.request, o)
         /\ store' = o.store /\ disk' = o.disk
         /\ SlotBecomes(IF o.deferred THEN "RUNNING" ELSE "COMPLETE", slot.request, slot.from, o.ok)
         /\ executed' = IF slot.from = "host" /\ ~o.deferred
                        THEN executed \cup {Final(slot.request, o.ok)} ELSE executed
         /\ AskBecomes(ask.target, ask.told, ask.applied \/ (slot.from = "host" /\ o.effect))
  BY StorageTaskFacts DEF Typed, Local
<1>1. /\ UNCHANGED <<host, job, toDevice, toHost, ft, pendingFrame, lastResponse>>
      /\ slot.state \in {"PENDING", "RUNNING"}
  BY DEF StorageTask, hostVars, lineVars, deviceVars
<1>2. /\ slot'.request = slot.request /\ slot'.from = slot.from /\ slot'.ok = o.ok
      /\ slot'.state = IF o.deferred THEN "RUNNING" ELSE "COMPLETE"
      /\ ask'.target = ask.target /\ ask'.told = ask.told
      /\ ask'.applied <=> ask.applied \/ (slot.from = "host" /\ o.effect)
  BY <1>0, Zenon DEF SlotBecomes, AskBecomes
<1>3. /\ o.ok \in BOOLEAN /\ o.effect \in BOOLEAN /\ o.deferred \in BOOLEAN
      /\ store'.upload => \/ store.upload /\ store'.declared = store.declared
                          \/ slot.request.op = "BEGIN" /\ store'.declared = slot.request.data
      /\ o.deferred => slot.request.op = "COMMIT" /\ ~o.effect
      /\ o.ok /\ slot.request.op \in {"COMMIT", "REMOVE"} /\ ~o.deferred => o.effect
  BY <1>0, Zenon DEF CallFacts
<1>4. /\ slot.request.op = "BEGIN" => slot.from = "host"
      /\ slot.from = "host" => slot.request.session = ft.session /\ ft.session # 0
  BY <1>1 DEF Local, MailInv
<1>5. FromHost(pendingFrame) /\ FromHost(lastResponse)
  BY DEF FromHost
<1>6. SentInv'
  BY <1>1, <1>2, <1>5, DeviceSent DEF Line, Heard
<1>7. OwnUpload'
  <2>1. store'.upload => ft.session # 0
    BY <1>3, <1>4 DEF OwnUpload
  <2>2. host.phase = "wait" /\ host.session = ft.session /\ store'.upload
          => store'.declared = job.content
    BY <1>3, <1>4 DEF OwnUpload, SentInv
  <2> QED BY <1>1, <2>1, <2>2 DEF OwnUpload
<1>8. AskInv'
  BY <1>1, <1>2 DEF AskInv, Mutates
<1>9. PendInv'
  <2>1. CASE slot.from = "host" /\ ~o.deferred
    <3>1. Pend' = {}
      BY <1>2, <2>1, PendEmpty DEF Finished
    <3> QED BY <3>1 DEF PendInv
  <2>2. CASE ~(slot.from = "host" /\ ~o.deferred)
    <3>1. Pend' \subseteq Pend
      BY <1>1, <1>2, <2>2, PendQuiet DEF Finished, InMailbox, Line
    <3>2. /\ ask'.applied <=> ask.applied
          /\ store'.upload => store.upload /\ store'.declared = store.declared
      BY <1>2, <1>3, <1>4, <2>2
    <3> SUFFICES ASSUME NEW f \in Pend'
                 PROVE  /\ ask'.told \in {"waiting", "unknown"} /\ ~ask'.applied
                        /\ f.op = "REMOVE" => ask'.target = Absent
                        /\ f.op = "COMMIT" /\ store'.upload => store'.declared = ask'.target
      BY DEF PendInv
    <3>3. f \in Pend
      BY <3>1
    <3> HIDE DEF Pend
    <3> QED BY <1>2, <3>2, <3>3 DEF PendInv
  <2> QED BY <2>1, <2>2
<1>10. AppliedInv'
  <2>1. \A m : Confirms(m)' <=> Confirms(m)
    BY <1>1 DEF Confirms
  <2>2. ASSUME Mutates(host.frame), slot.from = "host", ~o.deferred,
               Confirms(Final(slot.request, o.ok))
        PROVE  ask'.applied
    <3>1. slot.request \in Frames
      BY FlagTypes DEF Typed
    <3>2. Final(slot.request, o.ok).op = slot.request.op /\ Final(slot.request, o.ok).ok = o.ok
      BY <1>3, <3>1, FinalFacts
    <3>3. slot.request.op \in {"COMMIT", "REMOVE"} /\ o.ok
      BY <2>2, <3>2 DEF Confirms, Mutates, Mutations
    <3> QED BY <1>2, <1>3, <2>2, <3>3
  <2>3. Finished' <=> slot.from = "host" /\ ~o.deferred
    BY <1>2 DEF Finished
  <2>4. Mutates(host.frame)' <=> Mutates(host.frame)
    BY <1>1 DEF Mutates
  <2>5. Mutates(host.frame) => \A m \in Heard' \cup {lastResponse'} : Confirms(m) => ask'.applied
    BY <1>1, <1>2 DEF AppliedInv, Heard
  <2>6. Final(slot.request, slot.ok)' = Final(slot.request, o.ok)
    BY <1>2
  <2>7. Mutates(host.frame) /\ Finished' /\ Confirms(Final(slot.request, o.ok)) => ask'.applied
    BY <2>2, <2>3
  <2> HIDE DEF Confirms
  <2> QED BY <1>1, <2>1, <2>4, <2>5, <2>6, <2>7 DEF AppliedInv
<1> QED BY <1>6, <1>7, <1>8, <1>9, <1>10

LEMMA DeviceTasksAsked ==
  Base /\ Asked /\ (Poll \/ StorageTask \/ MountAgain \/ PowerCut \/ Lose) => Asked'
<1> SUFFICES ASSUME Typed, Local, BoundInv, SequenceInv,
                    SentInv, OwnUpload, AskInv, PendInv, AppliedInv,
                    Poll \/ StorageTask \/ MountAgain \/ PowerCut \/ Lose
             PROVE  SentInv' /\ OwnUpload' /\ AskInv' /\ PendInv' /\ AppliedInv'
  BY DEF Asked, Base
<1> USE DEF hostVars, lineVars, deviceVars, storeVars
<1>0. /\ TypeOK /\ pendingFrame \in Frames /\ lastResponse \in Responses /\ slot.ok \in BOOLEAN
      /\ ft.sequence \in Nat /\ ft.cleanup \in 0..2
      /\ FromHost(pendingFrame) /\ FromHost(lastResponse)
      /\ NoFrame.session = 0 /\ NoAnswer.session = 0 /\ ~NoAnswer.final
  <2>1. FromHost(pendingFrame) /\ FromHost(lastResponse)
    BY DEF FromHost
  <2> QED BY <2>1, FlagTypes, NoFrameFacts, NoAnswerFacts DEF Typed, TypeOK, Transfer
<1>00. /\ Final(pendingFrame, slot.ok) \in Responses
       /\ Final(pendingFrame, slot.ok).op = pendingFrame.op
       /\ Final(pendingFrame, slot.ok).session = pendingFrame.session
       /\ Final(pendingFrame, slot.ok).sequence = pendingFrame.sequence
       /\ FromHost(Final(pendingFrame, slot.ok))
  <2>1. /\ Final(pendingFrame, slot.ok) \in Responses
        /\ Final(pendingFrame, slot.ok).op = pendingFrame.op
        /\ Final(pendingFrame, slot.ok).session = pendingFrame.session
        /\ Final(pendingFrame, slot.ok).sequence = pendingFrame.sequence
    BY <1>0, FinalFacts
  <2> QED BY <2>1 DEF FromHost
<1>1. ASSUME UNCHANGED <<host, job, ask>>, Pend' \subseteq Pend,
             ~store'.upload \/ (store' = store /\ (ft'.session = ft.session \/ ~store.upload))
      PROVE  OwnUpload' /\ AskInv' /\ PendInv'
  BY <1>1, DeviceRest
<1>2. CASE CompleteBinary
  <2>1. /\ ft.pending /\ ft.binary /\ ft.cleanup # 2 /\ slot.state = "COMPLETE"
        /\ UNCHANGED <<host, job, toDevice, store, ask, pendingFrame>>
        /\ lastResponse' = Final(pendingFrame, slot.ok)
        /\ Reply(Final(pendingFrame, slot.ok))
    BY <1>2 DEF CompleteBinary, TakeResult
  <2>2. slot.from = "host" /\ slot.request = pendingFrame /\ pendingFrame.sequence = ft.sequence
    BY <1>0, <2>1 DEF Local, MailInv, SessionInv
  <2>3. ft'.session = ft.session /\ ft'.sequence = ft.sequence + 1
        /\ slot'.state = "IDLE" /\ slot'.from = "none"
    BY <1>0, <1>2, CompleteBinaryFacts DEF FtBecomes, SlotBecomes
  <2>4. Heard' \subseteq Heard \cup {Final(pendingFrame, slot.ok)}
    BY <1>00, <2>1, HeardGrows
  <2>5. SentInv'
    BY <1>0, <1>00, <2>1, <2>3, <2>4, DeviceSent DEF Line
  <2>6. Pend' = {}
    <3>1. pendingFrame.sequence # ft'.sequence /\ InProgress
      BY <1>0, <2>2, <2>3 DEF InProgress
    <3>2. \A g \in Line' \cup {host.frame} : g.session # 0 /\ g.session = ft'.session => g = pendingFrame
      BY <2>1, <2>3, <3>1 DEF SequenceInv, Expected, Line
    <3> QED BY <2>1, <2>3, <3>1, <3>2, PendAdvanced
  <2>7. AppliedInv'
    <3>1. Finished /\ ~Finished'
      BY <2>1, <2>2, <2>3 DEF Finished
    <3>2. \A m : Confirms(m)' <=> Confirms(m)
      BY <2>1 DEF Confirms
    <3>3. Mutates(host.frame)' <=> Mutates(host.frame)
      BY <2>1 DEF Mutates
    <3> QED BY <2>1, <2>2, <2>4, <3>1, <3>2, <3>3 DEF AppliedInv
  <2> QED BY <1>1, <2>1, <2>3, <2>5, <2>6, <2>7
<1>3. CASE CompleteText
  <2>1. UNCHANGED <<host, job, toDevice, toHost, store, ask, pendingFrame, lastResponse>>
        /\ slot.from = "text" /\ ft.active = "off"
    BY <1>3 DEF CompleteText, Local, MailInv, SessionInv
  <2>2. ft'.session = ft.session /\ ft'.active = "off" /\ slot'.from \in {"text", "none"}
    BY <1>0, <1>3, <2>1, CompleteTextFacts DEF FtBecomes, SlotBecomes
  <2>3. SentInv'
    BY <1>0, <2>1, <2>2, DeviceSent DEF Line, Heard
  <2>4. Pend' \subseteq Pend
    BY <2>2, PendEmpty
  <2>5. AppliedInv'
    BY <2>1, <2>2, DeviceApplied DEF Heard, Finished
  <2> QED BY <1>1, <2>1, <2>2, <2>3, <2>4, <2>5
<1>4. CASE FinishCleanup
  <2>1. UNCHANGED <<host, job, toDevice, store, ask>> /\ slot.from = "cleanup" /\ ~store.upload
    BY <1>4 DEF FinishCleanup, TakeResult, Local, MailInv, UploadInv
  <2>2. slot'.from = "none" /\ slot'.state = "IDLE" /\ ft'.active # "on"
    BY <1>0, <1>4, FinishCleanupFacts DEF SlotBecomes, FtBecomes
  <2>3. Pend' \subseteq Pend
    BY <2>2, PendEmpty
  <2>4. SentInv' /\ AppliedInv'
    <3>1. CASE ft.exit
      <4>1. /\ lastResponse' = Final(pendingFrame, slot.ok) /\ Reply(lastResponse')
            /\ pendingFrame' = pendingFrame
        BY <1>0, <1>4, <3>1, FinishCleanupFacts
      <4>2. Heard' \subseteq Heard \cup {Final(pendingFrame, slot.ok)}
        BY <1>00, <4>1, HeardGrows
      <4>3. Harmless(Final(pendingFrame, slot.ok))
        BY <1>00, <3>1 DEF Local, SessionInv, StoreOps, Harmless
      <4>4. SentInv'
        BY <1>0, <1>00, <2>1, <2>2, <4>1, <4>2, DeviceSent DEF Line
      <4>5. AppliedInv'
        BY <2>1, <2>2, <4>1, <4>2, <4>3, DeviceApplied DEF Finished
      <4> QED BY <4>4, <4>5
    <3>2. CASE ~ft.exit
      <4>1. toHost' = toHost /\ pendingFrame' = NoFrame /\ lastResponse' = NoAnswer
        BY <1>0, <1>4, <3>2, FinishCleanupFacts DEF Forget
      <4>2. SentInv'
        BY <1>0, <2>1, <2>2, <4>1, DeviceSent DEF Line, Heard, FromHost
      <4>3. AppliedInv'
        BY <1>0, <2>1, <2>2, <4>1, DeviceApplied DEF Heard, Finished, Harmless
      <4> QED BY <4>2, <4>3
    <3> QED BY <3>1, <3>2
  <2> QED BY <1>1, <2>1, <2>3, <2>4
<1>5. CASE Progress
  <2> DEFINE g == IF ft.cleanup = 2 THEN [pendingFrame EXCEPT !.op = "EXIT"] ELSE pendingFrame
  <2>1. g \in Frames /\ g.session = pendingFrame.session /\ g.sequence = pendingFrame.sequence
    BY <1>0 DEF Frames, Ops
  <2>2. Reply(Busy(g))
    BY <1>5, Zenon DEF Progress
  <2> HIDE DEF g
  <2>3. Busy(g) \in Responses /\ Harmless(Busy(g)) /\ FromHost(Busy(g))
    BY <2>1, BusyFacts DEF Harmless, FromHost
  <2>4. UNCHANGED <<host, job, toDevice, ft, slot, store, ask, pendingFrame, lastResponse>>
    BY <1>5 DEF Progress
  <2>5. Heard' \subseteq Heard \cup {Busy(g)}
    BY <2>2, <2>3, HeardGrows
  <2>6. SentInv'
    BY <1>0, <2>3, <2>4, <2>5, DeviceSent DEF Line
  <2>7. Pend' \subseteq Pend
    BY <2>4, PendQuiet DEF Finished, InMailbox, Line
  <2>8. AppliedInv'
    BY <2>3, <2>4, <2>5, DeviceApplied DEF Finished
  <2> QED BY <1>1, <2>4, <2>6, <2>7, <2>8
<1>6. CASE LingerExpires
  <2>1. ft.active = "linger" /\ UNCHANGED <<host, job, toDevice, toHost, slot, store, ask>>
        /\ ft'.active = "off" /\ pendingFrame' = NoFrame /\ lastResponse' = NoAnswer
    BY <1>6, OffFacts DEF LingerExpires, FtBecomes, Forget
  <2>2. ~store.upload
    BY <2>1 DEF Local, UploadInv
  <2>3. SentInv'
    BY <1>0, <2>1, DeviceSent DEF Line, Heard, FromHost
  <2>4. Pend' \subseteq Pend
    BY <2>1, PendEmpty
  <2>5. AppliedInv'
    BY <1>0, <2>1, DeviceApplied DEF Heard, Finished, Harmless
  <2> QED BY <1>1, <2>1, <2>2, <2>3, <2>4, <2>5
<1>7. CASE StartCleanup
  <2>1. UNCHANGED <<host, job, toDevice, toHost, store, ask, pendingFrame, lastResponse>>
        /\ slot.from = "none"
    BY <1>7, EmptySlot DEF StartCleanup, Local
  <2>2. /\ ft'.session = ft.session /\ ft'.active = ft.active /\ ft'.sequence = ft.sequence
        /\ slot'.from = "cleanup"
    BY <1>0, <1>7, StartCleanupFacts DEF FtBecomes, SlotBecomes
  <2>3. SentInv'
    BY <1>0, <2>1, <2>2, DeviceSent DEF Line, Heard
  <2>4. Pend' \subseteq Pend
    BY <2>1, <2>2, PendQuiet DEF Finished, InMailbox, Line
  <2>5. AppliedInv'
    BY <2>1, <2>2, DeviceApplied DEF Heard, Finished
  <2> QED BY <1>1, <2>1, <2>2, <2>3, <2>4, <2>5
<1>8. CASE StorageTask
  BY <1>8, StorageTaskAsked DEF Base, Asked
<1>9. CASE MountAgain
  <2>1. ~store'.upload
    BY <1>0, <1>9, RemountFacts DEF MountAgain, Dead, TypeOK
  <2>2. UNCHANGED <<host, job, toDevice, toHost, ft, slot, ask, pendingFrame, lastResponse>>
    BY <1>9 DEF MountAgain
  <2>3. SentInv'
    BY <1>0, <2>2, DeviceSent DEF Line, Heard
  <2>4. Pend' \subseteq Pend
    BY <2>2, PendQuiet DEF Finished, InMailbox, Line
  <2>5. AppliedInv'
    BY <2>2, DeviceApplied DEF Heard, Finished
  <2> QED BY <1>1, <2>1, <2>2, <2>3, <2>4, <2>5
<1>10. CASE PowerCut
  <2>1. ~store'.upload
    BY <1>0, <1>10, RemountFacts DEF PowerCut, Dead, TypeOK
  <2>2. /\ UNCHANGED <<host, job, toHost, ask>> /\ toDevice' = <<>> /\ Line' = {}
        /\ ft'.active = "off" /\ slot'.from = "none"
        /\ pendingFrame' = NoFrame /\ lastResponse' = NoAnswer
    BY <1>10, OffFacts, SlotIdleFacts, EmptyFacts DEF PowerCut, FtBecomes, SlotBecomes, Forget, Line
  <2>3. SentInv'
    BY <1>0, <2>2, DeviceSent DEF Heard, FromHost
  <2>4. Pend' \subseteq Pend
    BY <2>2, PendEmpty
  <2>5. AppliedInv'
    BY <1>0, <2>2, DeviceApplied DEF Heard, Finished, Harmless
  <2> QED BY <1>1, <2>1, <2>2, <2>3, <2>4, <2>5
<1>11. CASE Lose
  <2>1. UNCHANGED <<host, job, ft, slot, store, ask, pendingFrame, lastResponse>>
    BY <1>11 DEF Lose
  <2>2. Heard' \subseteq Heard
    BY <1>0, <1>11, TailFacts DEF Lose, TypeOK, Heard
  <2>3. Line' \subseteq Line
    BY <1>0, <1>11, TailFacts DEF Lose, TypeOK, Line
  <2>4. SentInv'
    BY <1>0, <2>1, <2>2, <2>3, DeviceSent
  <2>5. Pend' \subseteq Pend
    BY <2>1, <2>3, PendQuiet DEF Finished, InMailbox
  <2>6. AppliedInv'
    BY <2>1, <2>2, DeviceApplied DEF Finished
  <2> QED BY <1>1, <2>1, <2>4, <2>5, <2>6
<1> QED BY <1>2, <1>3, <1>4, <1>5, <1>6, <1>7, <1>8, <1>9, <1>10, <1>11 DEF Poll


(* A host that sends nothing new that changes the file.                       *)
LEMMA PendSent ==
  ASSUME UNCHANGED <<ft, slot>>, NEW g, ~Mutates(g) \/ g = host.frame,
         Line' \subseteq Line \cup {g}, host'.frame \in {host.frame, NoFrame, g}
  PROVE  Pend' \subseteq Pend
<1> SUFFICES ASSUME NEW f \in Pend' PROVE f \in Pend
  OBVIOUS
<1>1. ~Mutates(NoFrame)
  BY NoFrameFacts DEF Mutates, Mutations
<1>2. Mutates(f) /\ f \in Line' \cup {host'.frame} \cup InMailbox'
  BY DEF Pend, Mutates
<1>3. f \in Line \cup {host.frame} \cup InMailbox
  BY <1>1, <1>2 DEF InMailbox
<1> QED BY <1>2, <1>3 DEF Pend, Finished

(* A host that waits on, sending the same again or nothing.                   *)
LEMMA HostWaits ==
  ASSUME Asked, UNCHANGED <<host, job, ask, deviceVars, slot, store>>, Pend' \subseteq Pend,
         Members(toHost') \subseteq Heard,
         host.phase = "wait" =>
           \A f \in Line' : f \in Line \/ (f.op = "BEGIN" => f.data = job.content)
  PROVE  Asked'
<1>0. UNCHANGED <<ft, slot, store, pendingFrame, lastResponse>> /\ Heard' \subseteq Heard
  BY DEF deviceVars, Heard
<1>1. SentInv'
  BY <1>0 DEF Asked, SentInv
<1>2. OwnUpload' /\ AskInv' /\ PendInv'
  BY <1>0, DeviceRest DEF Asked
<1>3. AppliedInv'
  BY <1>0 DEF Asked, AppliedInv, Confirms, Finished, Mutates
<1> QED BY <1>1, <1>2, <1>3 DEF Asked

(* A host that has not asked for a change and no longer waits for an answer.  *)
LEMMA HostRests ==
  ASSUME Asked, UNCHANGED <<deviceVars, slot, store>>, Pend' \subseteq Pend,
         host'.phase # "wait", host'.frame = NoFrame, ask'.told # "waiting",
         \A f \in Pend : ask'.told = "unknown" /\ ask'.target = ask.target
                           /\ (ask'.applied <=> ask.applied)
  PROVE  Asked'
<1>0. UNCHANGED <<ft, slot, store, pendingFrame, lastResponse>>
  BY DEF deviceVars
<1>1. ~Mutates(NoFrame) /\ NoFrame.op \notin {"COMMIT", "REMOVE"}
  BY NoFrameFacts DEF Mutates, Mutations
<1>2. SentInv' /\ OwnUpload'
  BY <1>0 DEF Asked, SentInv, OwnUpload
<1>3. AskInv'
  BY <1>1 DEF AskInv, Mutates
<1>4. PendInv'
  <2> SUFFICES ASSUME NEW f \in Pend'
               PROVE  /\ ask'.told \in {"waiting", "unknown"} /\ ~ask'.applied
                      /\ f.op = "REMOVE" => ask'.target = Absent
                      /\ f.op = "COMMIT" /\ store'.upload => store'.declared = ask'.target
    BY DEF PendInv
  <2>1. f \in Pend
    OBVIOUS
  <2> HIDE DEF Pend
  <2>2. /\ ask.told \in {"waiting", "unknown"} /\ ~ask.applied
        /\ f.op = "REMOVE" => ask.target = Absent
        /\ f.op = "COMMIT" /\ store.upload => store.declared = ask.target
    BY <2>1 DEF Asked, PendInv
  <2>3. ask'.told = "unknown" /\ ask'.target = ask.target /\ (ask'.applied <=> ask.applied)
    BY <2>1
  <2> QED BY <1>0, <2>2, <2>3
<1>5. AppliedInv'
  BY <1>1 DEF AppliedInv, Mutates
<1> QED BY <1>2, <1>3, <1>4, <1>5 DEF Asked

(* What the answer means for the client.                                      *)
LEMMA AnsweredAsk ==
  ASSUME TypeOK, Answered
  PROVE  /\ host.phase = "wait" /\ toHost # <<>>
         /\ Head(toHost).op = host.frame.op /\ Head(toHost).session = host.session
         /\ Head(toHost).sequence = host.frame.sequence /\ Head(toHost).final
         /\ Mutates(host.frame) =>
              AskBecomes(ask.target, IF Head(toHost).ok THEN "ok" ELSE "error", ask.applied)
         /\ ~Mutates(host.frame) =>
              IF NextOp(host.frame, Head(toHost).ok) \in Mutations /\ host.frame.op # "EXIT"
              THEN AskBecomes(Target(NextOp(host.frame, Head(toHost).ok)), "waiting", FALSE)
              ELSE ask' = ask
<1> DEFINE op == NextOp(host.frame, Head(toHost).ok)
<1>1. /\ host.phase = "wait" /\ toHost # <<>>
      /\ Head(toHost).op = host.frame.op /\ Head(toHost).session = host.session
      /\ Head(toHost).sequence = host.frame.sequence /\ Head(toHost).final
      /\ ask' = IF host.frame.op \in Mutations
                THEN [ask EXCEPT !.told = IF Head(toHost).ok THEN "ok" ELSE "error"]
                ELSE IF op \in Mutations /\ host.frame.op # "EXIT"
                     THEN [target |-> Target(op), told |-> "waiting", applied |-> FALSE]
                     ELSE ask
  BY Zenon DEF Answered, Awaited
<1>2. Target(op) \in Files
  BY AskTypes DEF Target
<1> HIDE DEF op
<1>3. ASSUME NEW told \in {"ok", "error"}, ask' = [ask EXCEPT !.told = told]
      PROVE  AskBecomes(ask.target, told, ask.applied)
  BY <1>3, Zenon DEF AskBecomes, TypeOK, Question
<1>4. ASSUME ask' = [target |-> Target(op), told |-> "waiting", applied |-> FALSE]
      PROVE  AskBecomes(Target(op), "waiting", FALSE)
  BY <1>2, <1>4, Zenon DEF AskBecomes, Question
<1>5. (IF Head(toHost).ok THEN "ok" ELSE "error") \in {"ok", "error"}
  OBVIOUS
<1>6. Mutates(host.frame) =>
        AskBecomes(ask.target, IF Head(toHost).ok THEN "ok" ELSE "error", ask.applied)
  BY <1>1, <1>3, <1>5, Zenon DEF Mutates
<1>7. ~Mutates(host.frame) =>
        IF op \in Mutations /\ host.frame.op # "EXIT"
        THEN AskBecomes(Target(op), "waiting", FALSE) ELSE ask' = ask
  BY <1>1, <1>4, Zenon DEF Mutates
<1> QED BY <1>1, <1>6, <1>7 DEF op

(* The final answer is of a number the session has gone past: no request that *)
(* could change the file is left of it.                                       *)
LEMMA Passed ==
  ASSUME Base, Answered
  PROVE  /\ ft.session \in {0, host.session} /\ slot.from # "host"
         /\ \A f \in Line \cup {host.frame} :
              ~(ft.session # 0 /\ f.session = ft.session /\ f.sequence = ft.sequence)
         /\ Pend = {}
<1> USE DEF Base
<1>0. /\ toHost \in Seq(Responses) /\ host.session \in Nat /\ ft.session \in Nat
      /\ ft.sequence \in Nat /\ host.frame.sequence \in Nat
      /\ \A f \in Line : f.sequence \in Nat
  <2>1. Line \subseteq Frames
    BY MembersType DEF Typed, TypeOK, Line
  <2>2. host.frame \in Frames
    BY FlagTypes DEF Typed
  <2> QED BY <2>1, <2>2, FlagTypes DEF Typed, TypeOK, Frames
<1>1. /\ host.phase = "wait" /\ toHost # <<>> /\ Head(toHost) \in Heard
      /\ Head(toHost).session = host.session
      /\ Head(toHost).sequence = host.frame.sequence /\ Head(toHost).final
      /\ host.session # 0 /\ host.frame.session = host.session
  <2>1. host.phase = "wait" /\ toHost # <<>> /\ Head(toHost).session = host.session
        /\ Head(toHost).sequence = host.frame.sequence /\ Head(toHost).final
    BY AnsweredAsk DEF Typed
  <2> QED BY <1>0, <2>1, TailFacts DEF Heard, Typed, HostInv
<1>2. ft.session \in {0, host.session}
  <2>1. Bound(host.session)
    BY <1>1 DEF Bound
  <2>2. ft.session # 0 => host.session <= ft.session
    BY <1>0, <2>1 DEF BoundInv, Closed
  <2>3. ft.session # 0 => ft.session <= host.session
    BY <1>0 DEF BoundInv, Closed, Bound
  <2> QED BY <1>0, <2>2, <2>3
<1>3. ft.session # 0 => host.frame.sequence < ft.sequence
  BY <1>1, <1>2 DEF SequenceInv
<1>4. slot.from # "host"
  <2> SUFFICES ASSUME slot.from = "host" PROVE FALSE
    OBVIOUS
  <2>1. ft.session # 0 /\ pendingFrame.sequence = ft.sequence /\ InProgress
    BY DEF Local, MailInv, InProgress
  <2>2. host.frame = pendingFrame
    BY <1>1, <1>2, <2>1 DEF SequenceInv, Expected
  <2> QED BY <1>0, <1>3, <2>1, <2>2
<1>5. \A f \in Line \cup {host.frame} :
        ~(ft.session # 0 /\ f.session = ft.session /\ f.sequence = ft.sequence)
  <2>1. \A f \in Line : ft.session # 0 /\ f.session = ft.session => f.sequence <= host.frame.sequence
    BY <1>1, <1>2 DEF SequenceInv
  <2> QED BY <1>0, <1>3, <2>1
<1>6. Pend = {}
  BY <1>4, <1>5 DEF Pend, InMailbox
<1> QED BY <1>2, <1>4, <1>5, <1>6

LEMMA HostActsAsked == Base /\ Asked /\ Host => Asked'
<1> SUFFICES ASSUME Base, Asked, Host PROVE Asked'
  OBVIOUS
<1>0. /\ TypeOK /\ HostInv /\ host.frame \in Frames /\ toHost \in Seq(Responses) /\ job \in Jobs
      /\ host.session \in Nat /\ ft.session \in Nat
  BY FlagTypes DEF Base, Typed, TypeOK
<1>00. UNCHANGED <<deviceVars, slot, store>> /\ UNCHANGED <<ft, pendingFrame, lastResponse>>
  BY HostFrame DEF deviceVars
<1>01. \A g \in Frames : toDevice' = Sent(toDevice, g) => Line' \subseteq Line \cup {g}
  BY <1>0, SentFacts DEF TypeOK, Line
<1>02. ~Mutates(NoFrame) /\ AskInv
  BY NoFrameFacts DEF Mutates, Mutations, Asked
<1>1. CASE Type
  <2>1. PICK at \in {0, 1} : toDevice' = Sent(toDevice, Request("TEXT", 0, 0, at, <<>>))
    BY <1>1 DEF Type
  <2> DEFINE g == Request("TEXT", 0, 0, at, <<>>)
  <2>2. g \in Frames /\ g.op = "TEXT"
    <3>1. <<>> \in Data
      BY DEF Data, Content
    <3> QED BY <3>1 DEF Request, Frames, Ops
  <2>3. toDevice' = Sent(toDevice, g)
    BY <2>1
  <2> HIDE DEF g
  <2>4. host.phase = "rest" /\ UNCHANGED <<host, job, ask>> /\ Members(toHost') \subseteq Heard
    BY <1>1 DEF Type, hostVars, Heard
  <2>5. Pend' \subseteq Pend
    BY <1>00, <1>01, <2>2, <2>3, <2>4, PendSent DEF Mutates, Mutations
  <2> QED BY <1>00, <2>4, <2>5, HostWaits
<1>2. ASSUME NEW j \in Jobs, Start(j)
      PROVE  Asked'
  <2> DEFINE g == Request("ENTER", 0, 0, 0, <<>>)
  <2>1. HostBecomes("enter", host.session + 1, NoFrame) /\ g \in Frames
        /\ toDevice' = Sent(toDevice, g)
    BY <1>0, <1>2, StartFacts
  <2>2. g.op = "ENTER"
    BY RequestFacts
  <2> HIDE DEF g
  <2>3. host'.phase = "enter" /\ host'.frame = NoFrame
    BY <2>1 DEF HostBecomes
  <2>4. Pend' \subseteq Pend
    BY <1>00, <1>01, <2>1, <2>2, <2>3, PendSent DEF Mutates, Mutations
  <2>5. ask.told # "waiting" /\ NoAsk.told = "none"
        /\ ask' = IF ask.told = "unknown" THEN ask ELSE NoAsk
    BY <1>0, <1>02, <1>2 DEF Start, HostInv, AskInv, NoAsk
  <2>6. ask'.told # "waiting" /\ (ask.told = "unknown" => ask' = ask)
    BY <2>5, Zenon
  <2>7. \A f \in Pend : ask.told \in {"waiting", "unknown"}
    BY DEF Asked, PendInv
  <2> QED BY <1>00, <2>3, <2>4, <2>5, <2>6, <2>7, HostRests
<1>3. CASE Entered
  <2> DEFINE g == Request("HELLO", host.session, 0, 0, <<>>)
  <2>1. g \in Frames /\ HostBecomes("wait", host.session, g) /\ toDevice' = Sent(toDevice, g)
    BY <1>0, <1>3, EnteredFacts
  <2>2. g.op = "HELLO" /\ g.session = host.session
    BY RequestFacts
  <2> HIDE DEF g
  <2>3. Members(toHost') \subseteq Heard /\ host.phase = "enter" /\ UNCHANGED <<job, ask>>
    BY <1>0, <1>3, TailFacts DEF Entered, Heard
  <2>4. host'.phase = "wait" /\ host'.session = host.session /\ host'.frame = g
    BY <2>1 DEF HostBecomes
  <2>5. host.session # 0 /\ ~Bound(host.session)
    BY <1>0, <2>3 DEF HostInv, Base, BoundInv, Closed
  <2>6. /\ ft.session # host.session /\ pendingFrame.session # host.session
        /\ lastResponse.session # host.session
        /\ slot.from = "host" => slot.request.session # host.session
        /\ \A m \in Heard : m.session # host.session
        /\ \A f \in Line : f.session # host.session
    <3>1. ft.session # host.session /\ \A m \in Heard : m.session # host.session
      BY <2>5 DEF Bound
    <3>2. \A f \in Line : f.session # host.session
      BY <1>0, <2>3 DEF HostInv
    <3> QED BY <2>5, <3>1, <3>2 DEF Base, Local, CacheInv, MailInv
  <2>7. SentInv'
    BY <1>00, <1>01, <2>1, <2>2, <2>3, <2>4, <2>6 DEF SentInv, Heard
  <2>8. OwnUpload'
    BY <1>00, <2>4, <2>6 DEF Asked, OwnUpload
  <2>9. ~Mutates(g) /\ g.op \notin {"COMMIT", "REMOVE"} /\ ~Mutates(host.frame)
    BY <1>0, <1>02, <2>2, <2>3 DEF Mutates, Mutations, HostInv
  <2>10. AskInv'
    BY <1>02, <2>3, <2>4, <2>9 DEF AskInv, Mutates
  <2>11. Pend' \subseteq Pend
    BY <1>00, <1>01, <2>1, <2>4, <2>9, PendSent
  <2>12. PendInv'
    <3> SUFFICES ASSUME NEW f \in Pend'
                 PROVE  /\ ask'.told \in {"waiting", "unknown"} /\ ~ask'.applied
                        /\ f.op = "REMOVE" => ask'.target = Absent
                        /\ f.op = "COMMIT" /\ store'.upload => store'.declared = ask'.target
      BY DEF PendInv
    <3>1. f \in Pend
      BY <2>11
    <3> HIDE DEF Pend
    <3> QED BY <1>00, <2>3, <3>1 DEF Asked, PendInv
  <2>13. AppliedInv'
    BY <2>4, <2>9 DEF AppliedInv, Mutates
  <2> QED BY <2>7, <2>8, <2>10, <2>12, <2>13 DEF Asked
<1>4. CASE Skip
  <2>1. UNCHANGED <<host, job, ask, toDevice>> /\ Members(toHost') \subseteq Heard
    BY <1>0, <1>4, TailFacts DEF Skip, hostVars, Heard
  <2>2. Pend' \subseteq Pend
    BY <1>00, <2>1, PendQuiet DEF Line, Finished, InMailbox
  <2> QED BY <1>00, <2>1, <2>2, HostWaits DEF Line
<1>5. CASE Retry
  <2>1. /\ UNCHANGED <<host, job, ask>> /\ Members(toHost') \subseteq Heard
        /\ toDevice' = Sent(toDevice, host.frame)
    BY <1>5 DEF Retry, hostVars, Heard
  <2>2. Line' \subseteq Line \cup {host.frame}
    BY <1>0, <1>01, <2>1
  <2>3. Pend' \subseteq Pend
    BY <1>00, <2>1, <2>2, PendSent
  <2>4. host.frame.op = "BEGIN" => host.frame.data = job.content
    BY <1>0 DEF HostInv
  <2> QED BY <1>00, <2>1, <2>2, <2>3, <2>4, HostWaits
<1>6. CASE GiveUp
  <2>1. HostBecomes("rest", host.session, NoFrame)
    BY <1>0, <1>6, RestFacts DEF GiveUp
  <2>2. host'.phase = "rest" /\ host'.frame = NoFrame /\ toDevice' = toDevice
    BY <1>6, <2>1 DEF GiveUp, HostBecomes
  <2>3. Pend' \subseteq Pend
    BY <1>00, <1>02, <2>2, PendSent DEF Line
  <2>4. IF Mutates(host.frame) THEN AskBecomes(ask.target, "unknown", ask.applied) ELSE ask' = ask
    <3>1. ask' = IF Mutates(host.frame) THEN [ask EXCEPT !.told = "unknown"] ELSE ask
      BY <1>6, Zenon DEF GiveUp, Mutates
    <3> QED BY <1>0, <3>1, Zenon DEF TypeOK, Question, AskBecomes
  <2>5. \A f \in Pend : ask.told \in {"waiting", "unknown"}
    BY DEF Asked, PendInv
  <2>6. /\ ask'.told # "waiting" /\ ask'.target = ask.target /\ (ask'.applied <=> ask.applied)
        /\ ask.told \in {"waiting", "unknown"} => ask'.told = "unknown"
    BY <1>02, <2>4 DEF AskBecomes, AskInv
  <2> QED BY <1>00, <2>2, <2>3, <2>5, <2>6, HostRests
<1>7. CASE Answered
  <2> DEFINE op == NextOp(host.frame, Head(toHost).ok)
  <2>0. /\ host.phase = "wait" /\ toHost # <<>> /\ host.session # 0
        /\ ft.session \in {0, host.session} /\ slot.from # "host" /\ Pend = {}
        /\ \A f \in Line \cup {host.frame} :
             ~(ft.session # 0 /\ f.session = ft.session /\ f.sequence = ft.sequence)
    BY <1>0, <1>7, AnsweredAsk, Passed DEF HostInv
  <2>1. CASE host.frame.op = "EXIT"
    <3>1. HostBecomes("rest", host.session, NoFrame) /\ toDevice' = toDevice
      BY <1>0, <1>7, <2>1, AnsweredFacts
    <3>2. ask' = ask /\ ask.told # "waiting"
      BY <1>0, <1>02, <1>7, <2>1, AnsweredAsk DEF AskInv, Mutates, Mutations
    <3>3. host'.phase = "rest" /\ host'.frame = NoFrame
      BY <3>1 DEF HostBecomes
    <3>4. Pend' \subseteq Pend
      BY <1>00, <1>02, <3>1, <3>3, PendSent DEF Line
    <3> QED BY <1>00, <2>0, <3>2, <3>3, <3>4, HostRests
  <2>2. CASE host.frame.op # "EXIT"
    <3>1. PICK g \in Frames :
             /\ HostBecomes("wait", host.session, g)
             /\ toDevice' = Sent(toDevice, g) /\ toHost' = Tail(toHost) /\ job' = job
             /\ g.op = op
             /\ g.session = host.session /\ g.sequence = host.frame.sequence + 1
             /\ g.op = "BEGIN" => g.data = job.content
      BY <1>0, <1>7, <2>2, AnsweredFacts
    <3>2. /\ host'.phase = "wait" /\ host'.session = host.session /\ host'.frame = g
          /\ Line' \subseteq Line \cup {g} /\ Members(toHost') \subseteq Heard
      BY <1>0, <1>01, <2>0, <3>1, TailFacts DEF HostBecomes, Heard
    <3>3. /\ Mutates(host.frame) => ~Mutates(g) /\ ask'.told \in {"ok", "error"}
          /\ ~Mutates(host.frame) /\ Mutates(g) =>
               /\ ask'.told = "waiting" /\ ~ask'.applied
               /\ ask'.target = IF g.op = "COMMIT" THEN job.content ELSE Absent
          /\ ~Mutates(host.frame) /\ ~Mutates(g) => ask' = ask
      <4>1. Mutates(host.frame) => op \notin Mutations
        <5>1. host.frame.op \in Ops
          BY <1>0 DEF Frames
        <5>2. /\ op = "COMMIT" => host.frame.op \in {"BEGIN", "WRITE"}
              /\ op = "REMOVE" => host.frame.op = "HELLO"
          BY <1>0, <5>1, NextOpFacts
        <5> HIDE DEF op
        <5> QED BY <5>2 DEF Mutates, Mutations
      <4>2. Mutates(host.frame) =>
              AskBecomes(ask.target, IF Head(toHost).ok THEN "ok" ELSE "error", ask.applied)
        BY <1>0, <1>7, AnsweredAsk
      <4>3. ~Mutates(host.frame) =>
              IF op \in Mutations THEN AskBecomes(Target(op), "waiting", FALSE) ELSE ask' = ask
        BY <1>0, <1>7, <2>2, AnsweredAsk
      <4>4. Mutates(g) <=> op \in Mutations
        BY <3>1 DEF Mutates
      <4>5. g.op = op
        BY <3>1
      <4> HIDE DEF op
      <4> QED BY <4>1, <4>2, <4>3, <4>4, <4>5 DEF AskBecomes, Target
    <3>4. /\ g.sequence = host.frame.sequence + 1 /\ host.frame.sequence \in Nat
          /\ \A m \in Heard \cup {lastResponse} : m.sequence \in Nat
          /\ pendingFrame.sequence \in Nat
      <4>1. Heard \subseteq Responses
        BY <1>0, MembersType DEF Heard
      <4> QED BY <1>0, <3>1, <4>1 DEF Frames, Responses, TypeOK
    <3>5. \A m \in Heard \cup {lastResponse} : m.session = host.session =>
             m.sequence <= host.frame.sequence
      BY <2>0 DEF Asked, SentInv
    <3>6. SentInv'
      <4>1. \A m \in Heard' \cup {lastResponse'} : m.session = host.session => m.sequence <= g.sequence
        BY <1>00, <3>2, <3>4, <3>5 DEF Heard
      <4>2. pendingFrame.session = host.session => pendingFrame.sequence <= g.sequence
        BY <2>0, <3>4 DEF Asked, SentInv
      <4>3. \A f \in Line' : f.op = "BEGIN" /\ f.session = host.session => f.data = job.content
        BY <2>0, <3>1, <3>2 DEF Asked, SentInv
      <4> QED BY <1>00, <2>0, <3>1, <3>2, <4>1, <4>2, <4>3 DEF SentInv
    <3>7. OwnUpload'
      BY <1>00, <2>0, <3>1, <3>2 DEF Asked, OwnUpload
    <3>8. AskInv'
      <4>1. /\ g.op \in {"COMMIT", "REMOVE"} <=> Mutates(g)
            /\ Mutates(host'.frame) <=> Mutates(g)
        BY <3>2 DEF Mutates, Mutations
      <4>2. ask'.told = "waiting" <=> Mutates(g)
        BY <1>02, <3>3 DEF AskInv
      <4>3. Mutates(g) => ask'.target = IF g.op = "COMMIT" THEN job.content ELSE Absent
        BY <3>3
      <4> QED BY <3>1, <3>2, <4>1, <4>2, <4>3 DEF AskInv, Mutates
    <3>9. PendInv'
      <4> SUFFICES ASSUME NEW f \in Pend'
                   PROVE  /\ ask'.told \in {"waiting", "unknown"} /\ ~ask'.applied
                          /\ f.op = "REMOVE" => ask'.target = Absent
                          /\ f.op = "COMMIT" /\ store'.upload => store'.declared = ask'.target
        BY DEF PendInv
      <4>1. f = g /\ Mutates(g) /\ ft.session = host.session
        <5>1. /\ f \in Line' \cup {host'.frame} \cup InMailbox' /\ Mutates(f)
              /\ ft.session # 0 /\ f.session = ft.session /\ f.sequence = ft.sequence
          BY <1>00 DEF Pend, Mutates
        <5>2. InMailbox' = {}
          BY <1>00, <2>0 DEF InMailbox
        <5> QED BY <2>0, <3>2, <5>1, <5>2
      <4>2. ~Mutates(host.frame)
        BY <3>3, <4>1
      <4>3. store.upload => store.declared = job.content
        BY <2>0, <4>1 DEF Asked, OwnUpload
      <4> QED BY <1>00, <3>3, <4>1, <4>2, <4>3
    <3>10. AppliedInv'
      <4>1. \A m \in Heard' \cup {lastResponse'} : ~(m.session = g.session /\ m.sequence = g.sequence)
        BY <1>00, <3>1, <3>2, <3>4, <3>5 DEF Heard
      <4>2. ~Finished'
        BY <1>00, <2>0 DEF Finished
      <4> QED BY <3>2, <4>1, <4>2 DEF AppliedInv, Confirms
    <3> QED BY <3>6, <3>7, <3>8, <3>9, <3>10 DEF Asked
  <2> QED BY <2>1, <2>2
<1> QED BY <1>1, <1>2, <1>3, <1>4, <1>5, <1>6, <1>7 DEF Host
-----------------------------------------------------------------------------
(* COMMIT and REMOVE are atomic *)

AllInv == Inv /\ TypedInv /\ Asked

LEMMA InitAsked == Init => AllInv
<1> SUFFICES ASSUME Init PROVE TypedInv /\ Asked
  BY InitHolds DEF AllInv
<1>1. /\ host.phase = "rest" /\ host.frame = NoFrame
      /\ toDevice = <<>> /\ toHost = <<>> /\ slot.from = "none" /\ slot.state = "IDLE"
      /\ ft.active = "off" /\ ask.told = "none"
  <2>1. host = [phase |-> "rest", session |-> 0, frame |-> NoFrame] /\ ft = FtOff
        /\ slot = SlotIdle /\ ask = NoAsk /\ toDevice = <<>> /\ toHost = <<>>
    BY DEF Init
  <2>2. host.phase = "rest" /\ host.frame = NoFrame
    BY <2>1
  <2> QED BY <2>1, <2>2 DEF FtOff, SlotIdle, NoAsk
<1>2. Line = {}
  BY <1>1, EmptyFacts DEF Line
<1>3. ~store.upload
  BY InitHolds, <1>1 DEF Inv, Local, UploadInv
<1>4. TypedInv
  BY <1>1, <1>2, EmptyFacts DEF TypedInv
<1>5. SentInv /\ OwnUpload
  BY <1>1, <1>3 DEF SentInv, OwnUpload
<1>6. AskInv /\ AppliedInv
  BY <1>1, NoFrameFacts DEF AskInv, AppliedInv, Mutates, Mutations
<1>7. PendInv
  BY <1>1 DEF PendInv, Pend
<1> QED BY <1>4, <1>5, <1>6, <1>7 DEF Asked

LEMMA NextAsked == AllInv /\ [Next]_vars => AllInv'
<1> SUFFICES ASSUME AllInv, [Next]_vars PROVE TypedInv' /\ Asked'
  BY NextKeeps DEF AllInv
<1>0. Base /\ Asked /\ TypedInv /\ Typed /\ Local
  BY DEF AllInv, Inv, Base
<1>1. CASE Receive
  BY <1>0, <1>1, ReceiveText, ReceiveAsked
<1>2. CASE Poll \/ StorageTask \/ MountAgain \/ PowerCut \/ Lose
  BY <1>0, <1>2, DeviceTasksText, DeviceTasksAsked
<1>3. CASE Host
  BY <1>0, <1>3, HostActsText, HostActsAsked
<1>4. CASE UNCHANGED vars
  <2>1. UNCHANGED <<host, job, toDevice, toHost, ft, pendingFrame, lastRequest, lastResponse,
                    slot, store, disk, cuts, executed, ask>>
    BY <1>4 DEF vars, hostVars, lineVars, deviceVars, storeVars
  <2>2. TypedInv'
    BY <1>0, <2>1 DEF TypedInv, Line, Heard
  <2>3. SentInv' /\ OwnUpload' /\ AskInv'
    BY <1>0, <2>1 DEF Asked, SentInv, OwnUpload, AskInv, Mutates, Line, Heard
  <2>4. Pend' = Pend
    BY <2>1 DEF Pend, Line, InMailbox, Mutates, Finished
  <2>5. PendInv'
    <3> HIDE DEF Pend
    <3> QED BY <1>0, <2>1, <2>4 DEF Asked, PendInv
  <2>6. AppliedInv'
    BY <1>0, <2>1 DEF Asked, AppliedInv, Mutates, Confirms, Heard, Finished
  <2> QED BY <2>2, <2>3, <2>5, <2>6 DEF Asked
<1> QED BY <1>1, <1>2, <1>3, <1>4 DEF Next

(* A pass of storageTask: the change that was asked for, a removal by hand or *)
(* nothing the client could see.                                              *)
LEMMA StorageTaskAtomic ==
  ASSUME AllInv, StorageTask
  PROVE  [Atomic!Next]_Atomic!vars
<1> USE DEF AllInv, Inv
<1>0. PICK o :
         /\ CallFacts(store, disk, slot.request, o)
         /\ store' = o.store /\ disk' = o.disk
         /\ SlotBecomes(IF o.deferred THEN "RUNNING" ELSE "COMPLETE", slot.request, slot.from, o.ok)
         /\ executed' = IF slot.from = "host" /\ ~o.deferred
                        THEN executed \cup {Final(slot.request, o.ok)} ELSE executed
         /\ AskBecomes(ask.target, ask.told, ask.applied \/ (slot.from = "host" /\ o.effect))
  BY StorageTaskFacts DEF Typed, Local
<1>1. /\ slot.state \in {"PENDING", "RUNNING"} /\ ask.applied \in BOOLEAN /\ o.effect \in BOOLEAN
      /\ ask'.target = ask.target /\ ask'.told = ask.told
      /\ ask'.applied = (ask.applied \/ (slot.from = "host" /\ o.effect))
      /\ o.effect => \/ slot.request.op = "COMMIT" /\ store.upload /\ disk'.file = store.declared
                     \/ slot.request.op = "REMOVE" /\ disk'.file = Absent
      /\ ~o.effect => disk'.file = disk.file
  <2>1. slot.state \in {"PENDING", "RUNNING"} /\ ask.applied \in BOOLEAN
    BY DEF StorageTask, Typed, TypeOK, Question
  <2> QED BY <1>0, <2>1, Zenon DEF CallFacts, AskBecomes
<1>2. CASE ~o.effect
  <2>1. disk'.file = disk.file /\ ask'.applied = ask.applied
    BY <1>1, <1>2, Zenon
  <2> QED BY <1>1, <2>1 DEF Atomic!vars
<1>3. CASE o.effect /\ slot.from = "host"
  <2>1. slot.request \in Pend
    BY <1>1, <1>3 DEF Pend, InMailbox, Finished, Mutates, Mutations, Local, MailInv
  <2>2. /\ ask.told \in {"waiting", "unknown"} /\ ~ask.applied
        /\ slot.request.op = "REMOVE" => ask.target = Absent
        /\ slot.request.op = "COMMIT" /\ store.upload => store.declared = ask.target
    <3> HIDE DEF Pend
    <3> QED BY <2>1 DEF Asked, PendInv
  <2>3. ask'.applied = TRUE /\ disk'.file = ask.target
    <3>1. ask'.applied = TRUE
      BY <1>1, <1>3, Zenon
    <3> QED BY <1>1, <1>3, <2>2, <3>1
  <2>4. Atomic!Apply
    BY <1>1, <2>2, <2>3 DEF Atomic!Apply
  <2> QED BY <2>4 DEF Atomic!Next
<1>4. CASE o.effect /\ slot.from # "host"
  <2>1. slot.from = "text" /\ slot.request.op = "REMOVE"
    BY <1>1, <1>4 DEF Local, MailInv, Typed, TypeOK, Mailbox
  <2>2. ask.told # "waiting"
    <3>1. host.frame = NoFrame
      BY <2>1 DEF TypedInv, Typed, HostInv
    <3> QED BY <3>1, NoFrameFacts DEF Asked, AskInv, Mutates, Mutations
  <2>3. ask'.applied = ask.applied /\ disk'.file = Absent
    <3>1. ask'.applied = ask.applied
      BY <1>1, <1>4, Zenon
    <3> QED BY <1>1, <1>4, <2>1, <3>1
  <2>4. Atomic!RemovedByHand
    BY <1>1, <2>2, <2>3 DEF Atomic!RemovedByHand
  <2> QED BY <2>4 DEF Atomic!Next
<1> QED BY <1>2, <1>3, <1>4

(* The host asks, is told and starts again.                                   *)
LEMMA HostAtomic ==
  ASSUME AllInv, Host
  PROVE  [Atomic!Next]_Atomic!vars
<1> USE DEF AllInv, Inv
<1>0. /\ TypeOK /\ HostInv /\ host.frame \in Frames /\ AskInv /\ disk' = disk /\ ask \in Question
      /\ job \in Jobs /\ toHost \in Seq(Responses)
  BY FlagTypes, HostFrame DEF Typed, TypeOK, Asked
<1>1. ASSUME ask' = ask PROVE [Atomic!Next]_Atomic!vars
  BY <1>0, <1>1 DEF Atomic!vars
<1>2. ASSUME NEW answer \in {"ok", "error", "unknown"}, Mutates(host.frame),
             answer = "ok" => ask.applied, AskBecomes(ask.target, answer, ask.applied)
      PROVE  [Atomic!Next]_Atomic!vars
  <2>1. Atomic!Tell(answer)
    BY <1>0, <1>2 DEF Atomic!Tell, AskBecomes, AskInv
  <2> QED BY <2>1 DEF Atomic!Next
<1>3. CASE Type \/ Entered \/ Skip \/ Retry
  BY <1>1, <1>3 DEF Type, Entered, Skip, Retry
<1>4. ASSUME NEW j \in Jobs, Start(j)
      PROVE  [Atomic!Next]_Atomic!vars
  <2>1. ask' = IF ask.told = "unknown" THEN ask ELSE NoAsk
    BY <1>4 DEF Start
  <2>2. CASE ask.told = "unknown"
    BY <1>1, <2>1, <2>2
  <2>3. CASE ask.told # "unknown"
    <3>1. host.frame = NoFrame
      BY <1>0, <1>4 DEF Start, HostInv
    <3>2. ask.told # "waiting"
      BY <1>0, <3>1, NoFrameFacts DEF AskInv, Mutates, Mutations
    <3>3. ask.told \in {"none", "ok", "error"}
      BY <1>0, <2>3, <3>2 DEF Question
    <3>4. ask'.target = Absent /\ ask'.told = "none" /\ ask'.applied = FALSE
      BY <2>1, <2>3 DEF NoAsk
    <3>5. Atomic!NewClient
      BY <1>0, <3>3, <3>4 DEF Atomic!NewClient
    <3> QED BY <3>5 DEF Atomic!Next
  <2> QED BY <2>2, <2>3
<1>5. CASE GiveUp
  <2>1. ask' = IF Mutates(host.frame) THEN [ask EXCEPT !.told = "unknown"] ELSE ask
    BY <1>5, Zenon DEF GiveUp, Mutates
  <2>2. Mutates(host.frame) => AskBecomes(ask.target, "unknown", ask.applied)
    BY <1>0, <2>1, Zenon DEF Question, AskBecomes
  <2> QED BY <1>1, <1>2, <2>1, <2>2
<1>6. CASE Answered
  <2> DEFINE op == NextOp(host.frame, Head(toHost).ok)
  <2>1. /\ host.phase = "wait" /\ toHost # <<>>
        /\ Head(toHost).op = host.frame.op /\ Head(toHost).session = host.session
        /\ Head(toHost).sequence = host.frame.sequence /\ Head(toHost).final
    BY <1>0, <1>6, AnsweredAsk
  <2>2. CASE Mutates(host.frame)
    <3>1. Head(toHost) \in Heard /\ host.frame.session = host.session
      BY <1>0, <2>1, TailFacts DEF Heard, HostInv
    <3>2. Head(toHost).ok => ask.applied
      BY <2>1, <2>2, <3>1 DEF Asked, AppliedInv, Confirms
    <3>3. AskBecomes(ask.target, IF Head(toHost).ok THEN "ok" ELSE "error", ask.applied)
      BY <1>0, <1>6, <2>2, AnsweredAsk
    <3>4. CASE Head(toHost).ok
      BY <1>2, <2>2, <3>2, <3>3, <3>4
    <3>5. CASE ~Head(toHost).ok
      BY <1>2, <2>2, <3>3, <3>5
    <3> QED BY <3>4, <3>5
  <2>3. CASE ~Mutates(host.frame) /\ op \in Mutations /\ host.frame.op # "EXIT"
    <3>1. AskBecomes(Target(op), "waiting", FALSE)
      BY <1>0, <1>6, <2>3, AnsweredAsk
    <3>2. op = "COMMIT" => job.content \in Uploads
      <4>1. host.frame.op \in Ops
        BY <1>0 DEF Frames
      <4>2. op = "COMMIT" => host.frame.op \in {"BEGIN", "WRITE"}
        BY <1>0, <4>1, NextOpFacts
      <4> QED BY <1>0, <4>2, JobFacts DEF HostInv
    <3>3. Target(op) \in {Absent} \cup Uploads
      BY <3>2 DEF Target
    <3>4. ask.told # "waiting"
      BY <1>0, <2>3 DEF AskInv
    <3> HIDE DEF op
    <3>5. Atomic!Ask(Target(op))
      BY <1>0, <3>1, <3>4 DEF Atomic!Ask, AskBecomes
    <3> QED BY <3>3, <3>5 DEF Atomic!Next
  <2>4. CASE ~Mutates(host.frame) /\ ~(op \in Mutations /\ host.frame.op # "EXIT")
    BY <1>0, <1>1, <1>6, <2>4, AnsweredAsk
  <2> QED BY <2>2, <2>3, <2>4
<1> QED BY <1>3, <1>4, <1>5, <1>6 DEF Host

LEMMA InitAtomic == Init => Atomic!Init
<1> SUFFICES ASSUME Init PROVE Atomic!Init
  OBVIOUS
<1>1. PICK file \in {Absent} \cup Uploads, temp \in {Absent, <<>>} :
        \E o \in Remount([file |-> file, temp |-> temp]) : store = o.store /\ disk = o.disk
  BY DEF Init
<1>2. [file |-> file, temp |-> temp] \in Disk
  <2>1. <<>> \in Content
    BY DEF Content
  <2> QED BY <2>1, UploadsAssumption DEF Disk, Files
<1>3. disk.file = file
  BY <1>1, <1>2, RemountFacts DEF Dead
<1>4. ask.target = Absent /\ ask.told = "none" /\ ask.applied = FALSE
  BY DEF Init, NoAsk
<1> QED BY <1>3, <1>4 DEF Atomic!Init

LEMMA NextAtomic == AllInv /\ [Next]_vars => [Atomic!Next]_Atomic!vars
<1> SUFFICES ASSUME AllInv, [Next]_vars PROVE [Atomic!Next]_Atomic!vars
  OBVIOUS
<1>0. disk \in Disk
  BY DEF AllInv, Inv, Typed, TypeOK
<1>1. ASSUME disk'.file = disk.file, ask' = ask PROVE [Atomic!Next]_Atomic!vars
  BY <1>1 DEF Atomic!vars
<1>2. CASE Receive
  BY <1>1, <1>2 DEF Receive, storeVars, Enter, TextCommand, ConsoleRefuses, Hello, Ignore,
     AnswerAgain, TurnAway, AnswerAtOnce, Exit, Submit
<1>3. CASE Poll
  BY <1>1, <1>3 DEF Poll, storeVars, CompleteBinary, CompleteText, FinishCleanup, Progress,
     LingerExpires, StartCleanup
<1>4. CASE StorageTask
  BY <1>4, StorageTaskAtomic
<1>5. CASE MountAgain \/ PowerCut
  <2>1. PICK o \in Remount(disk) : disk' = o.disk
    BY <1>5 DEF MountAgain, PowerCut
  <2>2. disk'.file = disk.file
    BY <1>0, <2>1, RemountFacts DEF Dead
  <2> QED BY <1>1, <1>5, <2>2 DEF MountAgain, PowerCut
<1>6. CASE Lose
  BY <1>1, <1>6 DEF Lose, storeVars
<1>7. CASE Host
  BY <1>7, HostAtomic
<1>8. CASE UNCHANGED vars
  BY <1>1, <1>8 DEF vars, storeVars
<1> QED BY <1>2, <1>3, <1>4, <1>5, <1>6, <1>7, <1>8 DEF Next

(* Whatever is lost, repeated or delayed and wherever the power is cut: the   *)
(* file changes as a whole and only as a client asked, once, never after the  *)
(* client has a definite answer, and the client hears OK only of what is on   *)
(* the flash.                                                                 *)
THEOREM CommitsAreAtomic == Spec => ImplementsAtomicFile
<1>1. Init => AllInv /\ Atomic!Init
  BY InitAsked, InitAtomic
<1>2. AllInv /\ [Next]_vars => AllInv' /\ [Atomic!Next]_Atomic!vars
  BY NextAsked, NextAtomic
<1> QED BY <1>1, <1>2, PTL DEF Spec, ImplementsAtomicFile, Atomic!Spec

===============================================================================
