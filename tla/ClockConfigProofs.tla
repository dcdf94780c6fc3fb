------------------------------ MODULE ClockConfigProofs ------------------------------
(***************************************************************************)
(* Proofs about ClockConfig, for any set of formats and any width of the   *)
(* sequence numbers: two valid records are always neighbours, a save never *)
(* touches the sector a restart would load, a stored format is never lost, *)
(* and the pair of sectors implements ConfigRegister.                      *)
(***************************************************************************)
EXTENDS ClockConfig, TLAPS

USE FormatsAssumption, HalfAssumption

-----------------------------------------------------------------------------
(* The inductive invariant *)

(* The steps at which the state in RAM describes the flash.                 *)
Trusted == (pc = "idle" /\ online) \/ pc \in Saving \cup {"done"}

(* Nothing is asked of an idle task, and a request names a format.          *)
RequestInv ==
  /\ pc \in {"boot", "idle"} => request = "none"
  /\ pc \notin {"boot", "idle"} => request \in Formats

(* A record that validates holds a format.                                  *)
FormatInv == \A s \in Slots : IsValid(flash[s]) => flash[s].format \in Formats

(* The active sector holds exactly the state, and outside of a save the     *)
(* other sector is its predecessor or does not validate.                    *)
ActiveInv ==
  Trusted /\ state.valid =>
    /\ flash[state.active] = Valid(state.sequence, state.format)
    /\ pc \notin {"body", "check", "commit", "confirm"} /\ IsValid(flash[1 - state.active])
         => state.sequence = Succ(flash[1 - state.active].sequence)

(* Without an active sector nothing validates before the new commit mark.   *)
BlankInv ==
  Trusted /\ ~state.valid =>
    /\ ~IsValid(flash[1])
    /\ pc # "confirm" => ~IsValid(flash[0])

(* What the sector being rewritten holds.                                   *)
TargetInv ==
  /\ pc \in {"body", "check", "commit"} => ~IsValid(flash[Target])
  /\ pc = "confirm" /\ IsValid(flash[Target]) => flash[Target] = Valid(Sequence, request)

DoneInv == pc = "done" => state.valid /\ state.format = request

ShownInv == pc = "idle" /\ online => shown = state.format

SlotInv == IF state.valid THEN state.active \in Slots ELSE state.format = Default

IInv == /\ TypeOK /\ RequestInv /\ FormatInv /\ Neighbours
        /\ ActiveInv /\ BlankInv /\ TargetInv /\ DoneInv /\ ShownInv /\ SlotInv

-----------------------------------------------------------------------------
(* Sequence numbers and records *)

(* The successor of a sequence number is the newer of the two, across the   *)
(* wrap as well: what clock_config_load relies on to choose a record.       *)
THEOREM SuccIsNewer ==
  ASSUME NEW n \in Sequences
  PROVE  Succ(n) \in Sequences /\ Newer(Succ(n), n) /\ ~Newer(n, Succ(n))
BY DEF Succ, Newer, Difference, Sequences

LEMMA RecordTypes ==
  /\ Erased \in Record /\ Torn \in Record
  /\ \A n \in Sequences, f \in Formats : Body(n, f) \in Record /\ Valid(n, f) \in Record
BY DEF Record, Erased, Torn, Body, Valid, Sequences

LEMMA RecordKinds ==
  /\ ~IsValid(Erased) /\ ~IsValid(Torn)
  /\ \A n, f : ~IsValid(Body(n, f))
  /\ \A n, f : IsValid(Valid(n, f)) /\ Valid(n, f).sequence = n /\ Valid(n, f).format = f
BY DEF IsValid, Erased, Torn, Body, Valid

(* The record a restart finds when the other sector is older or invalid.    *)
LEMMA LoadedActive ==
  ASSUME NEW c \in [Slots -> Record], NEW a \in Slots, IsValid(c[a]),
         IsValid(c[1 - a]) => c[a].sequence = Succ(c[1 - a].sequence)
  PROVE  Stored(c) /\ Newest(c) = a /\ Loaded(c).format = c[a].format
<1>1. a = 0 \/ a = 1
  BY DEF Slots
<1>2. \A s \in Slots : c[s].sequence \in Sequences
  BY DEF Record
<1>3. Stored(c)
  BY DEF Stored
<1>4. Newest(c) = a
  <2>1. CASE IsValid(c[1 - a])
    <3>1. 1 - a \in Slots /\ c[a].sequence = Succ(c[1 - a].sequence)
      BY <2>1, <1>1 DEF Slots
    <3>2. Newer(c[a].sequence, c[1 - a].sequence) /\ ~Newer(c[1 - a].sequence, c[a].sequence)
      BY <3>1, <1>2, SuccIsNewer
    <3> QED BY <1>1, <2>1, <3>2 DEF Newest
  <2>2. CASE ~IsValid(c[1 - a])
    BY <1>1, <2>2 DEF Newest
  <2> QED BY <2>1, <2>2
<1>5. Loaded(c).format = c[a].format
  BY <1>3, <1>4 DEF Loaded
<1> QED BY <1>3, <1>4, <1>5

LEMMA LoadedBlank ==
  ASSUME NEW c, ~IsValid(c[0]), ~IsValid(c[1])
  PROVE  ~Stored(c) /\ Loaded(c) = Defaults
BY DEF Stored, Loaded, Slots

(* What a load leaves in the state, from any flash whose valid records are  *)
(* neighbours.                                                              *)
LEMMA LoadFacts ==
  ASSUME TypeOK, FormatInv, Neighbours
  PROVE  /\ Loaded(flash) \in State
         /\ ~Stored(flash) => Loaded(flash) = Defaults /\ ~IsValid(flash[0]) /\ ~IsValid(flash[1])
         /\ Stored(flash) =>
              /\ Loaded(flash).valid
              /\ Loaded(flash).active \in Slots
              /\ flash[Loaded(flash).active] = Valid(Loaded(flash).sequence, Loaded(flash).format)
              /\ IsValid(flash[1 - Loaded(flash).active])
                   => Loaded(flash).sequence = Succ(flash[1 - Loaded(flash).active].sequence)
<1>1. Defaults \in State /\ ~Defaults.valid
  BY DEF Defaults, State, Sequences, NoSlot
<1>2. CASE ~Stored(flash)
  BY <1>1, <1>2 DEF Loaded, Stored, Slots
<1>3. CASE Stored(flash)
  <2> DEFINE a == Newest(flash)
  <2>1. flash[0] \in Record /\ flash[1] \in Record /\ flash[0].sequence \in Sequences
        /\ flash[1].sequence \in Sequences
    BY DEF TypeOK, Slots, Record
  <2>2. IsValid(flash[0]) \/ IsValid(flash[1])
    BY <1>3 DEF Stored, Slots
  <2>3. /\ a \in Slots /\ IsValid(flash[a])
        /\ IsValid(flash[1 - a]) => flash[a].sequence = Succ(flash[1 - a].sequence)
    <3>1. CASE IsValid(flash[0]) /\ IsValid(flash[1])
      <4>1. CASE flash[1].sequence = Succ(flash[0].sequence)
        <5>1. a = 1
          BY <3>1, <4>1, <2>1, SuccIsNewer DEF Newest
        <5> QED BY <3>1, <4>1, <5>1 DEF Slots
      <4>2. CASE flash[0].sequence = Succ(flash[1].sequence)
        <5>1. a = 0
          BY <3>1, <4>2, <2>1, SuccIsNewer DEF Newest
        <5> QED BY <3>1, <4>2, <5>1 DEF Slots
      <4> QED BY <3>1, <4>1, <4>2 DEF Neighbours
    <3>2. CASE IsValid(flash[0]) /\ ~IsValid(flash[1])
      BY <3>2 DEF Newest, Slots
    <3>3. CASE ~IsValid(flash[0]) /\ IsValid(flash[1])
      BY <3>3 DEF Newest, Slots
    <3> QED BY <2>2, <3>1, <3>2, <3>3
  <2>4. Loaded(flash) = [format |-> flash[a].format, sequence |-> flash[a].sequence, active |-> a,
                         valid |-> TRUE, degraded |-> flash[1 - a].kind \in {"torn", "body"}]
    BY <1>3 DEF Loaded
  <2>5. flash[a] \in Record /\ flash[a].format \in Formats
    BY <2>1, <2>3 DEF FormatInv, Slots
  <2>6. flash[a] = Valid(flash[a].sequence, flash[a].format)
    BY <2>3, <2>5 DEF Valid, IsValid, Record
  <2>7. Loaded(flash) \in State
    BY <2>3, <2>4, <2>5 DEF State, Record
  <2> HIDE DEF a
  <2> QED BY <1>3, <2>3, <2>4, <2>6, <2>7
<1> QED BY <1>2, <1>3

-----------------------------------------------------------------------------
(* Flash operations *)

LEMMA TargetSlot ==
  ASSUME TypeOK, SlotInv
  PROVE  Target \in Slots /\ 1 - Target \in Slots /\ Sequence \in Sequences
BY SuccIsNewer DEF TypeOK, SlotInv, State, Target, Slots, Sequence

LEMMA WrittenFacts ==
  ASSUME TypeOK, SlotInv, NEW r \in Record, Written(r)
  PROVE  /\ flash' \in [Slots -> Record]
         /\ flash'[Target] = r /\ flash'[1 - Target] = flash[1 - Target]
<1>1. flash \in [Slots -> Record]
  BY DEF TypeOK
<1>2. Target # 1 - Target
  BY TargetSlot DEF Slots
<1> QED BY <1>1, <1>2, TargetSlot DEF Written

(* What the sector being rewritten may hold when an operation ends, in      *)
(* whatever way it ends.                                                    *)
LEMMA PartlyFacts ==
  ASSUME IInv, NEW r \in Partly(pc)
  PROVE  /\ r \in Record
         /\ r = flash[Target] \/ pc \in {"erase", "body", "commit"}
         /\ IsValid(r) => r = flash[Target] \/ (pc = "commit" /\ r = Valid(Sequence, request))
<1>1. Target \in Slots /\ Sequence \in Sequences /\ flash[Target] \in Record
  BY TargetSlot DEF IInv, TypeOK
<1>2. r = flash[Target] \/ r \in Result(pc)
  BY DEF Partly
<1>3. CASE r = flash[Target]
  BY <1>1, <1>3
<1>4. CASE r \in Result(pc) /\ pc = "erase"
  BY <1>4, RecordTypes, RecordKinds DEF Result
<1>5. CASE r \in Result(pc) /\ pc = "body"
  <2>1. request \in Formats
    BY <1>5 DEF IInv, RequestInv
  <2>2. r = Torn \/ r = Body(Sequence, request)
    BY <1>5 DEF Result
  <2> QED BY <1>1, <1>5, <2>1, <2>2, RecordTypes, RecordKinds
<1>6. CASE r \in Result(pc) /\ pc = "commit"
  <2>1. request \in Formats
    BY <1>6 DEF IInv, RequestInv
  <2>2. r = Torn \/ r = Valid(Sequence, request)
    BY <1>6 DEF Result
  <2> QED BY <1>1, <1>6, <2>1, <2>2, RecordTypes, RecordKinds
<1>7. pc \notin {"erase", "body", "commit"} => Result(pc) = {}
  BY DEF Result
<1> QED BY <1>2, <1>3, <1>4, <1>5, <1>6, <1>7

(* While a sector is rewritten the other one holds the active record.       *)
LEMMA OtherSector ==
  ASSUME IInv, pc \in Saving
  PROVE  /\ state.valid => Target = 1 - state.active /\ 1 - Target = state.active
                           /\ flash[1 - Target] = Valid(state.sequence, state.format)
         /\ ~state.valid => ~IsValid(flash[1 - Target])
<1>1. Trusted
  BY DEF Trusted
<1>2. CASE state.valid
  <2>1. state.active \in Slots /\ Target = 1 - state.active /\ 1 - Target = state.active
    BY <1>2 DEF IInv, SlotInv, Target, Slots
  <2> QED BY <1>1, <1>2, <2>1 DEF IInv, ActiveInv
<1>3. CASE ~state.valid
  BY <1>1, <1>3 DEF IInv, BlankInv, Target
<1> QED BY <1>2, <1>3

(* A flash operation that succeeds, fails half way or is cut by a power     *)
(* loss: records stay neighbours, nothing stored is lost, and a restart     *)
(* would load the same format as before or the requested one.               *)
LEMMA FlashStep ==
  ASSUME IInv, NEW r \in Partly(pc), Written(r)
  PROVE  /\ flash' \in [Slots -> Record] /\ FormatInv' /\ Neighbours'
         /\ Stored(flash) => Stored(flash')
         /\ \/ Loaded(flash').format = Loaded(flash).format
            \/ pc = "commit" /\ Loaded(flash').format = request
<1>1. /\ TypeOK /\ SlotInv /\ FormatInv /\ Neighbours /\ r \in Record
      /\ flash \in [Slots -> Record]
  BY PartlyFacts DEF IInv, TypeOK
<1>2. /\ Target \in Slots /\ 1 - Target \in Slots /\ Sequence \in Sequences
      /\ flash' \in [Slots -> Record] /\ flash'[Target] = r /\ flash'[1 - Target] = flash[1 - Target]
  BY <1>1, TargetSlot, WrittenFacts
<1>3. CASE r = flash[Target]
  <2>1. flash' = flash
    BY <1>1, <1>3 DEF Written
  <2> QED BY <1>1, <2>1 DEF FormatInv, Neighbours
<1>4. CASE r # flash[Target] /\ ~IsValid(r)
  <2>1. pc \in Saving
    BY <1>4, PartlyFacts DEF Saving
  <2>2. FormatInv' /\ Neighbours'
    BY <1>1, <1>2, <1>4 DEF FormatInv, Neighbours, Slots
  <2>3. pc \in {"erase", "body", "commit"}
    BY <1>4, PartlyFacts
  <2>4. CASE state.valid
    <3>1. /\ state.active \in Slots /\ Target = 1 - state.active
          /\ flash[state.active] = Valid(state.sequence, state.format)
          /\ flash'[state.active] = Valid(state.sequence, state.format)
      BY <2>1, <2>4, <1>1, <1>2, OtherSector DEF SlotInv
    <3>2. IsValid(flash[1 - state.active]) => state.sequence = Succ(flash[1 - state.active].sequence)
      BY <2>3, <2>4, <3>1 DEF IInv, ActiveInv, TargetInv, Trusted, Saving
    <3>3. Stored(flash) /\ Loaded(flash).format = state.format
      BY <1>1, <3>1, <3>2, LoadedActive, RecordKinds
    <3>4. /\ ~IsValid(flash'[1 - state.active])
          /\ IsValid(flash'[state.active]) /\ flash'[state.active].format = state.format
      BY <1>2, <1>4, <3>1, RecordKinds
    <3>5. Stored(flash') /\ Loaded(flash').format = state.format
      BY <1>2, <3>1, <3>4, LoadedActive
    <3> QED BY <1>2, <2>2, <3>3, <3>5
  <2>5. CASE ~state.valid
    <3>1. ~IsValid(flash[0]) /\ ~IsValid(flash[1])
      BY <2>3, <2>5 DEF IInv, BlankInv, Trusted, Saving
    <3>2. ~IsValid(flash'[0]) /\ ~IsValid(flash'[1])
      BY <1>2, <1>4, <3>1 DEF Slots
    <3> QED BY <1>2, <2>2, <3>1, <3>2, LoadedBlank
  <2> QED BY <2>4, <2>5
<1>5. CASE r # flash[Target] /\ IsValid(r)
  <2>1. pc = "commit" /\ r = Valid(Sequence, request) /\ request \in Formats
    BY <1>5, PartlyFacts DEF IInv, RequestInv
  <2>2. pc \in Saving /\ ~IsValid(flash[Target])
    BY <2>1 DEF IInv, TargetInv, Saving
  <2>3. IsValid(flash'[Target]) /\ flash'[Target].sequence = Sequence /\ flash'[Target].format = request
    BY <1>2, <2>1, RecordKinds
  <2>4. IsValid(flash'[1 - Target]) => flash'[Target].sequence = Succ(flash'[1 - Target].sequence)
    <3>1. CASE state.valid
      BY <1>2, <2>2, <2>3, <3>1, OtherSector, RecordKinds DEF Sequence
    <3>2. CASE ~state.valid
      BY <1>2, <2>2, <3>2, OtherSector
    <3> QED BY <3>1, <3>2
  <2>5. Stored(flash') /\ Loaded(flash').format = request
    BY <1>2, <2>3, <2>4, LoadedActive
  <2>6. FormatInv'
    BY <1>1, <1>2, <2>1, <2>3 DEF FormatInv, Slots
  <2>7. Neighbours'
    BY <1>2, <2>4 DEF Neighbours, Slots
  <2> QED BY <1>2, <2>1, <2>5, <2>6, <2>7
<1> QED BY <1>3, <1>4, <1>5

-----------------------------------------------------------------------------
(* The invariant is inductive: one lemma per kind of step *)

LEMMA InitInv == Init => IInv
<1> SUFFICES ASSUME Init PROVE IInv
  OBVIOUS
<1>1. flash \in [Slots -> Record] /\ \A s \in Slots : ~IsValid(flash[s])
  BY RecordTypes, RecordKinds DEF Init
<1>2. TypeOK
  <2>1. Defaults \in State
    BY DEF State, Defaults, Sequences, NoSlot
  <2>2. online \in BOOLEAN
    BY Zenon DEF Init
  <2> QED BY <1>1, <2>1, <2>2 DEF Init, TypeOK, Steps
<1>3. RequestInv /\ FormatInv /\ Neighbours /\ SlotInv
  BY <1>1 DEF Init, RequestInv, FormatInv, Neighbours, SlotInv, Defaults, Slots
<1>4. ~Trusted /\ pc = "boot"
  BY DEF Init, Trusted, Saving
<1> QED BY <1>2, <1>3, <1>4 DEF IInv, ActiveInv, BlankInv, TargetInv, DoneInv, ShownInv

(* A load, at boot or after a failure, makes the state match the flash.     *)
LEMMA LoadInv ==
  ASSUME TypeOK, FormatInv, Neighbours, UNCHANGED flash, state' = Loaded(flash),
         pc' \in {"idle", "save"}
  PROVE  ActiveInv' /\ BlankInv' /\ TargetInv' /\ DoneInv' /\ SlotInv' /\ state' \in State
<1>1. CASE Stored(flash)
  <2>1. /\ state'.valid /\ state'.active \in Slots /\ state' \in State
        /\ flash'[state'.active] = Valid(state'.sequence, state'.format)
        /\ IsValid(flash'[1 - state'.active]) => state'.sequence = Succ(flash'[1 - state'.active].sequence)
    BY <1>1, LoadFacts
  <2> QED BY <2>1 DEF ActiveInv, BlankInv, TargetInv, DoneInv, SlotInv
<1>2. CASE ~Stored(flash)
  <2>1. /\ ~state'.valid /\ state'.format = Default /\ state' \in State
        /\ ~IsValid(flash'[0]) /\ ~IsValid(flash'[1])
    BY <1>2, LoadFacts DEF Defaults
  <2> QED BY <2>1 DEF ActiveInv, BlankInv, TargetInv, DoneInv, SlotInv
<1> QED BY <1>1, <1>2

LEMMA BootInv == IInv /\ Boot => IInv'
<1> SUFFICES ASSUME IInv, Boot PROVE IInv'
  OBVIOUS
<1> USE DEF IInv
<1>1. PICK loaded \in BOOLEAN : online' = loaded /\ state' = IF loaded THEN Loaded(flash) ELSE Defaults
  BY DEF Boot
<1>2. /\ pc = "boot" /\ pc' = "idle" /\ shown' = state'.format
      /\ flash' = flash /\ request' = request /\ answer' = answer
  BY DEF Boot
<1>3. RequestInv' /\ FormatInv' /\ Neighbours'
  BY <1>2 DEF RequestInv, FormatInv, Neighbours
<1>4. ShownInv'
  BY <1>2 DEF ShownInv
<1>5. CASE loaded
  <2>1. ActiveInv' /\ BlankInv' /\ TargetInv' /\ DoneInv' /\ SlotInv' /\ state' \in State
    BY <1>1, <1>2, <1>5, LoadInv
  <2>2. TypeOK'
    BY <1>1, <1>2, <2>1 DEF TypeOK, State, Steps
  <2> QED BY <1>3, <1>4, <2>1, <2>2
<1>6. CASE ~loaded
  <2>1. /\ state' = Defaults /\ ~state'.valid /\ state'.format = Default /\ state' \in State
        /\ ~online'
    BY <1>1, <1>6 DEF Defaults, State, Sequences, NoSlot
  <2>2. TypeOK'
    BY <1>1, <1>2, <2>1 DEF TypeOK, State, Steps
  <2>3. ~Trusted'
    BY <1>2, <2>1 DEF Trusted, Saving
  <2> QED BY <1>2, <1>3, <1>4, <2>1, <2>2, <2>3 DEF ActiveInv, BlankInv, TargetInv, DoneInv, SlotInv
<1> QED BY <1>5, <1>6

LEMMA ReloadInv == IInv /\ Reload => IInv'
<1> SUFFICES ASSUME IInv, Reload PROVE IInv'
  OBVIOUS
<1> USE DEF IInv
<1>1. /\ pc = "reload" /\ flash' = flash /\ online' = online /\ request' = request
      /\ shown' = shown /\ answer' = answer
      /\ \/ state' = Loaded(flash) /\ pc' = "save"
         \/ state' = state /\ pc' = "failed"
  BY DEF Reload
<1>2. RequestInv' /\ FormatInv' /\ Neighbours' /\ ShownInv'
  BY <1>1 DEF RequestInv, FormatInv, Neighbours, ShownInv
<1>3. CASE state' = Loaded(flash) /\ pc' = "save"
  <2>1. ActiveInv' /\ BlankInv' /\ TargetInv' /\ DoneInv' /\ SlotInv' /\ state' \in State
    BY <1>1, <1>3, LoadInv
  <2>2. TypeOK'
    BY <1>1, <1>3, <2>1 DEF TypeOK, Steps, Saving
  <2> QED BY <1>2, <2>1, <2>2
<1>4. CASE state' = state /\ pc' = "failed"
  <2>1. TypeOK'
    BY <1>1, <1>4 DEF TypeOK, Steps
  <2>2. ~Trusted' /\ SlotInv'
    BY <1>4 DEF Trusted, Saving, SlotInv
  <2> QED BY <1>2, <1>4, <2>1, <2>2 DEF ActiveInv, BlankInv, TargetInv, DoneInv
<1> QED BY <1>1, <1>3, <1>4

LEMMA AcceptInv == IInv /\ Accept => IInv'
<1> SUFFICES ASSUME IInv, Accept PROVE IInv'
  OBVIOUS
<1> USE DEF IInv
<1>1. /\ pc = "idle" /\ request' \in Formats /\ pc' = IF online THEN "save" ELSE "reload"
      /\ flash' = flash /\ state' = state /\ online' = online /\ shown' = shown /\ answer' = "none"
  BY DEF Accept
<1>2. TypeOK'
  BY <1>1 DEF TypeOK, Steps, Saving
<1>3. RequestInv' /\ FormatInv' /\ Neighbours' /\ ShownInv' /\ SlotInv'
  BY <1>1 DEF RequestInv, FormatInv, Neighbours, ShownInv, SlotInv
<1>4. ActiveInv' /\ BlankInv'
  BY <1>1 DEF ActiveInv, BlankInv, Trusted, Saving
<1>5. TargetInv' /\ DoneInv'
  BY <1>1 DEF TargetInv, DoneInv
<1> QED BY <1>2, <1>3, <1>4, <1>5

LEMMA StartSaveInv == IInv /\ StartSave => IInv'
<1> SUFFICES ASSUME IInv, StartSave PROVE IInv'
  OBVIOUS
<1> USE DEF IInv
<1>1. /\ pc = "save" /\ pc' = IF state.valid /\ state.format = request THEN "done" ELSE "erase"
      /\ flash' = flash /\ state' = state /\ online' = online /\ request' = request
      /\ shown' = shown /\ answer' = answer
  BY DEF StartSave
<1>2. TypeOK'
  BY <1>1 DEF TypeOK, Steps, Saving
<1>3. RequestInv' /\ FormatInv' /\ Neighbours' /\ ShownInv' /\ SlotInv'
  BY <1>1 DEF RequestInv, FormatInv, Neighbours, ShownInv, SlotInv
<1>4. ActiveInv' /\ BlankInv'
  BY <1>1 DEF ActiveInv, BlankInv, Trusted, Saving
<1>5. TargetInv' /\ DoneInv'
  BY <1>1 DEF TargetInv, DoneInv
<1> QED BY <1>2, <1>3, <1>4, <1>5

LEMMA OperationInv ==
  ASSUME IInv, NEW op, NEW next, Operation(op, next),
         \/ op = "erase" /\ next = "body"
         \/ op = "body" /\ next = "check"
         \/ op = "commit" /\ next = "confirm"
  PROVE  IInv'
<1> USE DEF IInv
<1>1. /\ pc = op /\ (pc' = next \/ pc' = "failed")
      /\ state' = state /\ online' = online /\ request' = request
      /\ shown' = shown /\ answer' = answer
  BY DEF Operation
<1>2. PICK r \in Partly(pc) : Written(r) /\ (pc' = next => r \in Result(op))
  BY DEF Operation, Partly
<1>3. /\ flash' \in [Slots -> Record] /\ FormatInv' /\ Neighbours'
      /\ Target' = Target /\ Sequence' = Sequence
      /\ Target \in Slots /\ flash'[Target] = r /\ flash'[1 - Target] = flash[1 - Target]
  BY <1>1, <1>2, FlashStep, PartlyFacts, WrittenFacts, TargetSlot DEF Target, Sequence
<1>4. TypeOK'
  BY <1>1, <1>3 DEF TypeOK, Steps, Saving
<1>5. RequestInv' /\ ShownInv' /\ SlotInv' /\ DoneInv'
  BY <1>1 DEF RequestInv, ShownInv, SlotInv, DoneInv
<1>6. CASE pc' = "failed"
  BY <1>3, <1>4, <1>5, <1>6 DEF ActiveInv, BlankInv, TargetInv, Trusted, Saving
<1>7. CASE pc' = next
  <2>1. pc \in Saving /\ pc' \in {"body", "check", "confirm"}
    BY <1>1, <1>7 DEF Saving
  <2>2. ActiveInv'
    BY <1>1, <1>3, <2>1, OtherSector DEF ActiveInv
  <2>3. IsValid(r) => op = "commit" /\ r = Valid(Sequence, request)
    BY <1>1, <1>2, <1>7, RecordKinds DEF Result
  <2>4. TargetInv'
    BY <1>1, <1>3, <1>7, <2>3 DEF TargetInv
  <2>5. BlankInv'
    <3>1. CASE ~state.valid
      <4>1. Target = 0 /\ ~IsValid(flash[1])
        BY <2>1, <3>1, OtherSector DEF Target
      <4> QED BY <1>1, <1>3, <1>7, <2>3, <4>1 DEF BlankInv
    <3>2. CASE state.valid
      BY <1>1, <3>2 DEF BlankInv
    <3> QED BY <3>1, <3>2
  <2> QED BY <1>3, <1>4, <1>5, <2>2, <2>4, <2>5
<1> QED BY <1>1, <1>6, <1>7

LEMMA VerifyBodyInv == IInv /\ VerifyBody => IInv'
<1> SUFFICES ASSUME IInv, VerifyBody PROVE IInv'
  OBVIOUS
<1> USE DEF IInv
<1>1. /\ pc = "check" /\ pc' \in {"commit", "failed"}
      /\ flash' = flash /\ state' = state /\ online' = online /\ request' = request
      /\ shown' = shown /\ answer' = answer
  BY DEF VerifyBody
<1>2. TypeOK'
  BY <1>1 DEF TypeOK, Steps, Saving
<1>3. RequestInv' /\ FormatInv' /\ Neighbours' /\ ShownInv' /\ SlotInv' /\ DoneInv'
  BY <1>1 DEF RequestInv, FormatInv, Neighbours, ShownInv, SlotInv, DoneInv
<1>4. ActiveInv' /\ BlankInv'
  BY <1>1 DEF ActiveInv, BlankInv, Trusted, Saving
<1>5. TargetInv'
  BY <1>1 DEF TargetInv, Target
<1> QED BY <1>2, <1>3, <1>4, <1>5

LEMMA VerifyCommitInv == IInv /\ VerifyCommit => IInv'
<1> SUFFICES ASSUME IInv, VerifyCommit PROVE IInv'
  OBVIOUS
<1> USE DEF IInv
<1>1. /\ pc = "confirm" /\ flash' = flash /\ online' = online /\ request' = request
      /\ shown' = shown /\ answer' = answer
      /\ RequestInv' /\ FormatInv' /\ Neighbours' /\ request \in Formats
  BY DEF VerifyCommit, RequestInv, FormatInv, Neighbours
<1>2. CASE pc' = "failed" /\ state' = state
  <2>1. TypeOK'
    BY <1>1, <1>2 DEF TypeOK, Steps
  <2> QED BY <1>1, <1>2, <2>1
          DEF ActiveInv, BlankInv, TargetInv, DoneInv, ShownInv, SlotInv, Trusted, Saving
<1>3. CASE /\ flash[Target] = Valid(Sequence, request)
           /\ pc' = "done"
           /\ state' = [format |-> request, sequence |-> Sequence, active |-> Target,
                        valid |-> TRUE, degraded |-> FALSE]
  <2>1. /\ state'.valid /\ state'.format = request /\ state'.sequence = Sequence
        /\ state'.active = Target /\ state' \in State /\ Target \in Slots
    BY <1>1, <1>3, TargetSlot DEF State
  <2>2. TypeOK'
    BY <1>1, <1>3, <2>1 DEF TypeOK, Steps
  <2>3. IsValid(flash[1 - Target]) => Sequence = Succ(flash[1 - Target].sequence)
    <3>1. pc \in Saving
      BY <1>1 DEF Saving
    <3> QED BY <3>1, OtherSector, RecordKinds DEF Sequence
  <2>4. ActiveInv'
    BY <1>1, <1>3, <2>1, <2>3 DEF ActiveInv
  <2> QED BY <1>1, <1>3, <2>1, <2>2, <2>4 DEF BlankInv, TargetInv, DoneInv, ShownInv, SlotInv
<1> QED BY <1>2, <1>3 DEF VerifyCommit

LEMMA FinishInv == ASSUME IInv, NEW ok \in BOOLEAN, Finish(ok) PROVE IInv'
<1> USE DEF IInv
<1>1. /\ pc = (IF ok THEN "done" ELSE "failed") /\ pc' = "idle" /\ request' = "none"
      /\ online' = ok /\ shown' = (IF ok THEN state.format ELSE shown)
      /\ answer' = (IF ok THEN "ok" ELSE "failed")
      /\ flash' = flash /\ state' = state
  BY DEF Finish
<1>2. TypeOK'
  BY <1>1 DEF TypeOK, Steps, State
<1>3. RequestInv' /\ FormatInv' /\ Neighbours' /\ ShownInv' /\ SlotInv' /\ DoneInv' /\ TargetInv'
  BY <1>1 DEF RequestInv, FormatInv, Neighbours, ShownInv, SlotInv, DoneInv, TargetInv
<1>4. ActiveInv' /\ BlankInv'
  BY <1>1 DEF ActiveInv, BlankInv, Trusted, Saving
<1> QED BY <1>2, <1>3, <1>4

LEMMA ScanFailsInv == IInv /\ ScanFails => IInv'
<1> SUFFICES ASSUME IInv, ScanFails PROVE IInv'
  OBVIOUS
<1> USE DEF IInv
<1>1. /\ pc = "idle" /\ ~online' /\ pc' = pc /\ request' = request /\ flash' = flash
      /\ state' = state /\ shown' = shown /\ answer' = answer
  BY DEF ScanFails
<1>2. online' \in BOOLEAN
  BY Zenon DEF ScanFails
<1>3. TypeOK'
  BY <1>1, <1>2 DEF TypeOK
<1>4. ~Trusted'
  BY <1>1 DEF Trusted, Saving
<1> QED BY <1>1, <1>3, <1>4 DEF RequestInv, FormatInv, Neighbours, ActiveInv, BlankInv, TargetInv,
                                DoneInv, ShownInv, SlotInv

LEMMA PowerLossInv == IInv /\ PowerLoss => IInv'
<1> SUFFICES ASSUME IInv, PowerLoss PROVE IInv'
  OBVIOUS
<1> USE DEF IInv
<1>1. PICK r \in Partly(pc) : Written(r)
  BY DEF PowerLoss
<1>2. flash' \in [Slots -> Record] /\ FormatInv' /\ Neighbours'
  BY <1>1, FlashStep
<1>3. /\ pc' = "boot" /\ state' = Defaults /\ ~online' /\ request' = "none"
      /\ shown' = Default /\ answer' = "none"
  BY DEF PowerLoss
<1>4. online' \in BOOLEAN
  BY Zenon DEF PowerLoss
<1>5. Defaults \in State /\ ~Defaults.valid /\ Defaults.format = Default
  BY DEF Defaults, State, Sequences, NoSlot
<1>6. TypeOK'
  BY <1>2, <1>3, <1>4, <1>5 DEF TypeOK, Steps
<1>7. ~Trusted'
  BY <1>3 DEF Trusted, Saving
<1> QED BY <1>2, <1>3, <1>5, <1>6, <1>7 DEF RequestInv, ActiveInv, BlankInv, TargetInv,
                                DoneInv, ShownInv, SlotInv

LEMMA Inductive == IInv /\ [Next]_vars => IInv'
<1> SUFFICES ASSUME IInv, [Next]_vars PROVE IInv'
  OBVIOUS
<1>1. CASE EraseSector
  BY <1>1, OperationInv DEF EraseSector
<1>2. CASE ProgramBody
  BY <1>2, OperationInv DEF ProgramBody
<1>3. CASE ProgramCommit
  BY <1>3, OperationInv DEF ProgramCommit
<1>4. CASE UNCHANGED vars
  BY <1>4 DEF vars, IInv, TypeOK, RequestInv, FormatInv, Neighbours, ActiveInv, BlankInv, TargetInv,
              DoneInv, ShownInv, SlotInv, Trusted, Target, Sequence
<1> QED BY <1>1, <1>2, <1>3, <1>4, BootInv, AcceptInv, ReloadInv, StartSaveInv, VerifyBodyInv,
           VerifyCommitInv, FinishInv, ScanFailsInv, PowerLossInv DEF Next

LEMMA Invariance == Spec => []IInv
BY InitInv, Inductive, PTL DEF Spec

-----------------------------------------------------------------------------
(* Theorems *)

(* Type correctness of the save, its failures and its restarts.             *)
THEOREM TypeCorrect == Spec => []TypeOK
BY Invariance, PTL DEF IInv

(* clock_config_load may compare sequence numbers: in every reachable flash *)
(* two valid records differ by exactly one, modulo the width.               *)
THEOREM NeighboursAlways == Spec => []Neighbours
BY Invariance, PTL DEF IInv

(* When the state matches the flash, a restart would load exactly it.       *)
LEMMA StateIsLoaded ==
  ASSUME IInv, Trusted, pc \notin {"body", "check", "commit", "confirm"}
  PROVE  /\ state.valid <=> Stored(flash)
         /\ state.valid => state.active = Newest(flash)
                           /\ flash[state.active] = Valid(state.sequence, state.format)
         /\ state.valid => Loaded(flash).format = state.format
         /\ ~state.valid => Loaded(flash) = Defaults
<1>1. CASE state.valid
  <2>1. /\ flash \in [Slots -> Record] /\ state.active \in Slots
        /\ flash[state.active] = Valid(state.sequence, state.format)
        /\ IsValid(flash[1 - state.active]) => state.sequence = Succ(flash[1 - state.active].sequence)
    BY <1>1 DEF IInv, TypeOK, SlotInv, ActiveInv
  <2> QED BY <1>1, <2>1, LoadedActive, RecordKinds
<1>2. CASE ~state.valid
  <2>1. ~IsValid(flash[0]) /\ ~IsValid(flash[1])
    BY <1>2 DEF IInv, BlankInv
  <2> QED BY <1>2, <2>1, LoadedBlank
<1> QED BY <1>1, <1>2

(* A save starts from what a restart would load, and the sector it erases   *)
(* is never the one that restart would choose.                              *)
THEOREM SavesFromTheFlash == Spec => []TrustedState
<1>1. IInv => TrustedState
  BY StateIsLoaded DEF TrustedState, Trusted, Saving
<1> QED BY <1>1, Invariance, PTL

(* While the device is online the display shows what a restart would load.  *)
THEOREM ShownIsLoaded == Spec => []ShownIsStored
<1>1. IInv => ShownIsStored
  <2> SUFFICES ASSUME IInv, pc = "idle", online PROVE shown = Loaded(flash).format
    BY DEF ShownIsStored
  <2>1. shown = state.format /\ (~state.valid => state.format = Default)
    BY DEF IInv, ShownInv, SlotInv
  <2> QED BY <2>1, StateIsLoaded DEF Trusted, Defaults
<1> QED BY <1>1, Invariance, PTL

(* What a step does to the format a restart would load: the requested one   *)
(* appears by a commit mark, and nothing else changes it.                   *)
LEMMA StepOfFlash ==
  ASSUME IInv, [Next]_vars
  PROVE  /\ Stored(flash) => Stored(flash')
         /\ flash' = flash \/ PowerLoss \/ EraseSector \/ ProgramBody \/ ProgramCommit
         /\ \/ Loaded(flash').format = Loaded(flash).format
            \/ pc = "commit" /\ Loaded(flash').format = request
<1>1. CASE flash' = flash
  BY <1>1
<1>2. (\E r \in Partly(pc) : Written(r)) =>
        /\ Stored(flash) => Stored(flash')
        /\ \/ Loaded(flash').format = Loaded(flash).format
           \/ pc = "commit" /\ Loaded(flash').format = request
  BY FlashStep
<1>3. EraseSector \/ ProgramBody \/ ProgramCommit => \E r \in Partly(pc) : Written(r)
  BY DEF EraseSector, ProgramBody, ProgramCommit, Operation, Partly
<1>4. PowerLoss => \E r \in Partly(pc) : Written(r)
  BY DEF PowerLoss
<1>5. flash' = flash \/ PowerLoss \/ EraseSector \/ ProgramBody \/ ProgramCommit
  BY DEF Next, vars, Boot, Accept, Reload, StartSave, VerifyBody, VerifyCommit, Finish, ScanFails
<1> QED BY <1>1, <1>2, <1>3, <1>4, <1>5

(* Once a format was stored the flash holds a valid record for ever.        *)
THEOREM NeverLost == Spec => NeverUnconfigured
<1>1. IInv /\ [Next]_vars => [Stored(flash) => Stored(flash')]_vars
  BY StepOfFlash
<1> QED BY <1>1, Invariance, PTL DEF Spec, NeverUnconfigured

-----------------------------------------------------------------------------
(* Refinement *)

LEMMA RegisterInit == Init => Register!Init
<1> SUFFICES ASSUME Init PROVE Register!Init
  OBVIOUS
<1>1. ~IsValid(flash[0]) /\ ~IsValid(flash[1])
  BY RecordKinds DEF Init, Slots
<1>2. Loaded(flash).format = Default
  BY <1>1, LoadedBlank DEF Defaults
<1> QED BY <1>2 DEF Init, Register!Init

(* Every step of the save is a step of the register or invisible to it.     *)
LEMMA RegisterStep == IInv /\ [Next]_vars => [Register!Next]_Register!vars
<1> SUFFICES ASSUME IInv, [Next]_vars PROVE [Register!Next]_Register!vars
  OBVIOUS
<1>1. CASE UNCHANGED <<flash, request, answer>>
  BY <1>1 DEF Register!vars
<1>2. CASE Accept
  <2>1. /\ pc = "idle" /\ request = "none" /\ request' \in Formats /\ answer' = "none" /\ flash' = flash
    BY <1>2 DEF Accept, IInv, RequestInv
  <2> QED BY <2>1 DEF Register!Next, Register!Request
<1>3. CASE EraseSector \/ ProgramBody \/ ProgramCommit
  <2>1. request' = request /\ answer' = answer /\ pc \in Saving
    BY <1>3 DEF EraseSector, ProgramBody, ProgramCommit, Operation, Saving
  <2>2. request \in Formats
    BY <2>1 DEF IInv, RequestInv, Saving
  <2> QED BY <2>1, <2>2, StepOfFlash DEF Register!Next, Register!Write, Register!vars
<1>4. CASE Finish(TRUE)
  <2>1. /\ pc = "done" /\ request' = "none" /\ answer' = "ok" /\ flash' = flash
    BY <1>4 DEF Finish
  <2>2. Trusted /\ state.valid /\ state.format = request /\ request \in Formats
    BY <2>1 DEF Trusted, IInv, DoneInv, RequestInv
  <2>3. Loaded(flash).format = request
    BY <2>1, <2>2, StateIsLoaded
  <2> QED BY <2>1, <2>2, <2>3 DEF Register!Next, Register!Succeed
<1>5. CASE Finish(FALSE)
  <2>1. /\ pc = "failed" /\ request' = "none" /\ answer' = "failed" /\ flash' = flash
    BY <1>5 DEF Finish
  <2>2. request \in Formats
    BY <2>1 DEF IInv, RequestInv
  <2> QED BY <2>1, <2>2 DEF Register!Next, Register!Fail
<1>6. CASE PowerLoss
  <2>1. request' = "none" /\ answer' = "none"
    BY <1>6 DEF PowerLoss
  <2>2. pc = "commit" => request \in Formats
    BY DEF IInv, RequestInv
  <2> QED BY <2>1, <2>2, StepOfFlash DEF Register!Next, Register!PowerLoss
<1>7. Boot \/ Reload \/ StartSave \/ VerifyBody \/ VerifyCommit \/ ScanFails \/ UNCHANGED vars
        => UNCHANGED <<flash, request, answer>>
  BY DEF Boot, Reload, StartSave, VerifyBody, VerifyCommit, ScanFails, vars
<1> QED BY <1>1, <1>2, <1>3, <1>4, <1>5, <1>6, <1>7 DEF Next

(* The two sectors are one register: whatever fails or is cut, the format   *)
(* a restart finds is the last one answered "ok" or one asked for since.    *)
THEOREM ConfigImplementsRegister == Spec => ImplementsRegister
BY RegisterInit, RegisterStep, Invariance, PTL DEF Spec, ImplementsRegister, Register!Spec
=============================================================================
