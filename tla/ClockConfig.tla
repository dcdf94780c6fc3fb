------------------------------- MODULE ClockConfig -------------------------------
(***************************************************************************)
(* app/clock_config.c and the part of storageTask that calls it: the 12/24 *)
(* hour format is kept in two flash sectors, each with one record; a save  *)
(* erases the inactive sector, writes and verifies the body, and then      *)
(* writes the commit mark.  Power may be lost in any flash operation.      *)
(*                                                                         *)
(* A record is abstracted to its kind: erased, torn (anything that does    *)
(* not validate: wrong CRC, half a body, half a mark), the verified body   *)
(* without its mark, or valid.  Every flash operation may also fail while  *)
(* having done all, part or nothing of its work.                           *)
(***************************************************************************)
EXTENDS Integers

CONSTANT Formats   \* CLOCK_FORMAT_12 and CLOCK_FORMAT_24
CONSTANT Default   \* CLOCK_FORMAT_24
CONSTANT Half      \* sequence numbers are taken modulo 2 * Half; 2^31 in the code

ASSUME FormatsAssumption == Default \in Formats /\ "none" \notin Formats
ASSUME HalfAssumption == Half \in Nat /\ Half > 1

VARIABLES
  flash,    \* the two sectors
  state,    \* clock_config_state_t of storageTask
  online,   \* its local online: state may be trusted
  pc,       \* where storageTask is in handling a request
  request,  \* the format being saved, or "none"
  shown,    \* s_config.format, what the clock displays
  answer    \* s_config.completed_result, reduced to "ok" or "failed"

vars == <<flash, state, online, pc, request, shown, answer>>

Slots == {0, 1}
Sequences == 0..(2 * Half - 1)
NoSlot == 255

(* Mutant of Succ: the increment is not truncated.                          *)
SuccWide(n) == n + 1

(* Unsigned arithmetic on sequence numbers.                                 *)
Succ(n) == IF n = 2 * Half - 1 THEN 0 ELSE n + 1
Difference(b, a) == IF b >= a THEN b - a ELSE b - a + 2 * Half

(* Mutant of Newer: compares the numbers without their wrap.                *)
NewerPlain(b, a) == b > a

Newer(b, a) == b # a /\ Difference(b, a) < Half

Record == [kind : {"erased", "torn", "body", "valid"},
           sequence : Sequences, format : Formats \cup {"none"}]
Erased == [kind |-> "erased", sequence |-> 0, format |-> "none"]
Torn   == [kind |-> "torn", sequence |-> 0, format |-> "none"]
Body(n, f)  == [kind |-> "body", sequence |-> n, format |-> f]
Valid(n, f) == [kind |-> "valid", sequence |-> n, format |-> f]

State == [format : Formats, sequence : Sequences, active : Slots \cup {NoSlot},
          valid : BOOLEAN, degraded : BOOLEAN]
Defaults == [format |-> Default, sequence |-> 0, active |-> NoSlot,
             valid |-> FALSE, degraded |-> FALSE]

Saving == {"save", "erase", "body", "check", "commit", "confirm"}
Steps == {"boot", "idle", "reload", "done", "failed"} \cup Saving

IsValid(r) == r.kind = "valid"
Stored(c) == \E s \in Slots : IsValid(c[s])

TypeOK ==
  /\ flash \in [Slots -> Record]
  /\ state \in State
  /\ online \in BOOLEAN
  /\ pc \in Steps
  /\ request \in Formats \cup {"none"}
  /\ shown \in Formats
  /\ answer \in {"none", "ok", "failed"}

-----------------------------------------------------------------------------
(* clock_config_load: the newest valid record.                              *)
Newest(c) ==
  IF IsValid(c[0]) /\ IsValid(c[1])
  THEN IF Newer(c[1].sequence, c[0].sequence) THEN 1 ELSE 0
  ELSE IF IsValid(c[0]) THEN 0 ELSE 1

Loaded(c) ==
  IF ~Stored(c) THEN Defaults
  ELSE LET s == Newest(c) IN
       [format |-> c[s].format, sequence |-> c[s].sequence, active |-> s,
        valid |-> TRUE, degraded |-> c[1 - s].kind \in {"torn", "body"}]

(* The flash as it may be found: blank, or damaged in either sector.        *)
Init ==
  /\ flash \in [Slots -> {Erased, Torn}]
  /\ state = Defaults
  /\ online = FALSE
  /\ pc = "boot"
  /\ request = "none"
  /\ shown = Default
  /\ answer = "none"

(* The boot loads the records; a damaged pair leaves the defaults and still *)
(* counts as online, a device or read error does not.                       *)
Boot ==
  /\ pc = "boot"
  /\ pc' = "idle"
  /\ \E loaded \in BOOLEAN :
       /\ online' = loaded
       /\ state' = IF loaded THEN Loaded(flash) ELSE Defaults
  /\ shown' = state'.format
  /\ UNCHANGED <<flash, request, answer>>

(* Mutant of Accept: a save after a failure trusts the state in RAM.        *)
AcceptWithoutReload ==
  /\ pc = "idle"
  /\ request' \in Formats
  /\ pc' = "save"
  /\ answer' = "none"
  /\ UNCHANGED <<flash, state, online, shown>>

(* A message with a token: after any error the device is initialised and    *)
(* the records are loaded again before anything is written.                 *)
Accept ==
  /\ pc = "idle"
  /\ request' \in Formats
  /\ pc' = IF online THEN "save" ELSE "reload"
  /\ answer' = "none"
  /\ UNCHANGED <<flash, state, online, shown>>

Reload ==
  /\ pc = "reload"
  /\ \/ state' = Loaded(flash) /\ pc' = "save"
     \/ UNCHANGED state /\ pc' = "failed"
  /\ UNCHANGED <<flash, online, request, shown, answer>>

-----------------------------------------------------------------------------
(* clock_config_save *)

(* Mutant of Target: the active sector is rewritten.                        *)
TargetActive == IF state.valid THEN state.active ELSE 0

Target == IF state.valid THEN 1 - state.active ELSE 0

(* Mutant of Sequence: the number of the record it replaces.                *)
SequenceKept == state.sequence

Sequence == Succ(state.sequence)

StartSave ==
  /\ pc = "save"
  /\ pc' = IF state.valid /\ state.format = request THEN "done" ELSE "erase"
  /\ UNCHANGED <<flash, state, online, request, shown, answer>>

(* What a flash operation may leave in its sector when it reports success.  *)
(* The read-back inside the driver is not relied on: the record may still   *)
(* turn out torn when clock_config_save reads it again.                     *)
Result(op) ==
  CASE op = "erase"  -> {Erased, Torn}
    [] op = "body"   -> IF flash[Target] = Erased THEN {Body(Sequence, request), Torn} ELSE {Torn}
    [] op = "commit" -> {Valid(Sequence, request), Torn}
    [] OTHER         -> {}

(* What it may leave when it fails or when power is lost meanwhile.         *)
Partly(op) == Result(op) \cup {flash[Target]}

Written(r) == flash' = [flash EXCEPT ![Target] = r]

Operation(op, next) ==
  /\ pc = op
  /\ \/ pc' = next /\ \E r \in Result(op) : Written(r)
     \/ pc' = "failed" /\ \E r \in Partly(op) : Written(r)
  /\ UNCHANGED <<state, online, request, shown, answer>>

EraseSector   == Operation("erase", "body")
ProgramBody   == Operation("body", "check")
ProgramCommit == Operation("commit", "confirm")

VerifyBody ==
  /\ pc = "check"
  /\ pc' \in IF flash[Target] = Body(Sequence, request) THEN {"commit", "failed"} ELSE {"failed"}
  /\ UNCHANGED <<flash, state, online, request, shown, answer>>

VerifyCommit ==
  /\ pc = "confirm"
  /\ \/ /\ flash[Target] = Valid(Sequence, request)
        /\ pc' = "done"
        /\ state' = [format |-> request, sequence |-> Sequence, active |-> Target,
                     valid |-> TRUE, degraded |-> FALSE]
     \/ pc' = "failed" /\ UNCHANGED state
  /\ UNCHANGED <<flash, online, request, shown, answer>>

-----------------------------------------------------------------------------
(* Mutant of Finish: a failure leaves the state trusted.                    *)
FinishOnline(ok) ==
  /\ pc = IF ok THEN "done" ELSE "failed"
  /\ pc' = "idle"
  /\ online' = TRUE
  /\ shown' = IF ok THEN state.format ELSE shown
  /\ answer' = IF ok THEN "ok" ELSE "failed"
  /\ request' = "none"
  /\ UNCHANGED <<flash, state>>

(* s_publish_config: a failed request keeps the format that is displayed,   *)
(* and takes the device offline until the records were loaded again.        *)
Finish(ok) ==
  /\ pc = IF ok THEN "done" ELSE "failed"
  /\ pc' = "idle"
  /\ online' = ok
  /\ shown' = IF ok THEN state.format ELSE shown
  /\ answer' = IF ok THEN "ok" ELSE "failed"
  /\ request' = "none"
  /\ UNCHANGED <<flash, state>>

(* A physical scan that fails takes the device offline as well.             *)
ScanFails ==
  /\ pc = "idle"
  /\ online' = FALSE
  /\ UNCHANGED <<flash, state, pc, request, shown, answer>>

PowerLoss ==
  /\ \E r \in Partly(pc) : Written(r)
  /\ pc' = "boot"
  /\ state' = Defaults
  /\ online' = FALSE
  /\ request' = "none"
  /\ shown' = Default
  /\ answer' = "none"

Next ==
  \/ Boot \/ Accept \/ Reload
  \/ StartSave \/ EraseSector \/ ProgramBody \/ VerifyBody \/ ProgramCommit \/ VerifyCommit
  \/ Finish(TRUE) \/ Finish(FALSE)
  \/ ScanFails \/ PowerLoss

Spec == Init /\ [][Next]_vars

-----------------------------------------------------------------------------
(* Properties *)

(* Two valid records are always neighbours in the cyclic order, however     *)
(* many saves failed, were cut or came back from an uncertain commit: only  *)
(* then does "less than half the range ahead" name the newer one.           *)
Neighbours ==
  IsValid(flash[0]) /\ IsValid(flash[1]) =>
    \/ flash[1].sequence = Succ(flash[0].sequence)
    \/ flash[0].sequence = Succ(flash[1].sequence)

(* What the next save is computed from is what the flash holds: an online   *)
(* storageTask never erases the sector of the only or the newest record.    *)
TrustedState ==
  (pc = "idle" /\ online) \/ pc \in {"save", "erase"} =>
    /\ state.valid <=> Stored(flash)
    /\ state.valid => state.active = Newest(flash)
                      /\ flash[state.active] = Valid(state.sequence, state.format)

(* While the device is online the clock displays the stored format.         *)
ShownIsStored == pc = "idle" /\ online => shown = Loaded(flash).format

(* A format that was ever stored is never lost again.                       *)
NeverUnconfigured == [][Stored(flash) => Stored(flash')]_vars

(* The two sectors implement one persistent value: see ConfigRegister.      *)
Register == INSTANCE ConfigRegister
              WITH value <- Loaded(flash).format, pending <- request, answer <- answer
ImplementsRegister == Register!Spec
=============================================================================
