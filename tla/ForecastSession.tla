---------------------------- MODULE ForecastSession ----------------------------
(* A host that sets the time and stores weather batches over the console:    *)
(* debugTask's command handler and its polls (app/debug.c), the two time      *)
(* front ends, the batch protocol (app/forecast_protocol.c), defaultTask's    *)
(* mailbox (TimeService) and the save, restore and format of storageTask as   *)
(* the protocol sees them (their steps are in Storage and FileStore).  The    *)
(* host may send any command at any time, so a repeated command after a lost  *)
(* answer is one of its behaviours; a refusal that changes nothing is no      *)
(* action.  Power may go at any time; the flash survives.                     *)
EXTENDS TimeService, Naturals, FiniteSets

CONSTANTS
  Ids,         \* batch numbers the host uses
  Dates,       \* calendar days, a set of numbers
  MaxCount,    \* bound: days of a batch (7 in the code)
  NoBatch

ASSUME DataAssumption == Dates \subseteq Nat /\ IsFiniteSet(Dates) /\ MaxCount \in Nat

(* A day's weather is told by its date: two batches differ in their dates.   *)
Batch == [id : Ids, count : 1..MaxCount, days : SUBSET Dates]

ASSUME NoBatchAssumption == NoBatch \notin Batch

VARIABLES
  console,     \* s_console_active
  legacy,      \* TIME in flight, and the mode it was sent in (s_pending_time_reply)
  precise,     \* TIME2 or TIME? in flight
  clk,         \* the mailbox and the RTC of clock_service.c
  permit,      \* s_time_ready
  batch,       \* s_candidate while s_collecting
  pending,     \* s_pending: COMMIT waits for the storage
  cleared,     \* clear_generation differs from the one seen last
  store,       \* the storage's forecast transaction
  files,       \* an FS FORMAT that holds the storage
  ready,       \* s_forecast.ready
  ram, flash,  \* the saved batch: forecast.c's and /forecast.bin's
  told,        \* history: what the host was told
  doubt        \* history: a save or a format failed, and RAM was not reloaded since

timeVars    == <<legacy, precise, clk>>
sessionVars == <<console, permit, batch, pending>>
storeVars   == <<cleared, store, files, ready, ram, flash, doubt>>
vars == <<timeVars, sessionVars, storeVars, told>>

Saved == Batch \cup {NoBatch}

Transaction ==
  [state : {"RESTORE", "IDLE", "PENDING", "RENAMED", "COMPLETE"}, batch : Saved, ok : BOOLEAN]

Told ==
  [time  : BOOLEAN,    \* an OK TIME in this session, unused
   begun : BOOLEAN,    \* the collection has used one
   saved : Saved,      \* the last batch confirmed by OK COMMIT
   firm  : BOOLEAN]    \* and no failure was in doubt then

TypeOK ==
  /\ console \in BOOLEAN /\ permit \in BOOLEAN /\ pending \in BOOLEAN
  /\ cleared \in BOOLEAN /\ ready \in BOOLEAN /\ doubt \in BOOLEAN
  /\ legacy \in {"none", "silent", "console"}
  /\ precise \in {"none", "PRECISE", "QUERY"}
  /\ files \in {"none", "running", "complete"}
  /\ batch \in Saved /\ ram \in Saved /\ flash \in Saved
  /\ batch # NoBatch => Cardinality(batch.days) <= batch.count  \* room in days[]
  /\ clk \in Clock /\ store \in Transaction /\ told \in Told

Init ==
  /\ console = FALSE /\ permit = FALSE /\ pending = FALSE /\ batch = NoBatch
  /\ legacy = "none" /\ precise = "none" /\ clk = ClockInit
  /\ cleared = FALSE /\ ready = FALSE /\ files = "none" /\ doubt = FALSE
  /\ store = [state |-> "RESTORE", batch |-> NoBatch, ok |-> TRUE]
  /\ ram = NoBatch /\ flash = NoBatch
  /\ told = [time |-> FALSE, begun |-> FALSE, saved |-> NoBatch, firm |-> FALSE]

(* forecast_protocol_busy *)
Collecting == batch # NoBatch
Busy == Collecting \/ pending

(* storage's owner is taken by the forecast from request to take.            *)
Transacting == store.state \in {"PENDING", "RENAMED", "COMPLETE"}

(* forecast_protocol_reset_session *)
Dropped == IF pending THEN batch ELSE NoBatch

-----------------------------------------------------------------------------
(* Console and time commands *)

ConsoleOn ==
  /\ ~console
  /\ console' = TRUE /\ permit' = FALSE /\ batch' = Dropped
  /\ told' = [told EXCEPT !.time = FALSE]
  /\ UNCHANGED <<pending, timeVars, storeVars>>

ConsoleOff ==
  /\ console /\ legacy = "none" /\ precise = "none" /\ files = "none" /\ ~Busy
  /\ console' = FALSE /\ permit' = FALSE /\ batch' = Dropped
  /\ told' = [told EXCEPT !.time = FALSE]
  /\ UNCHANGED <<pending, timeVars, storeVars>>

(* A TIME revokes the permit even when it is malformed or refused.           *)
SetTime ==
  /\ ~Busy /\ precise = "none"
  /\ permit' = FALSE
  /\ \/ UNCHANGED <<legacy, clk>>
     \/ /\ legacy = "none" /\ Accepts(clk)
        /\ legacy' = IF console THEN "console" ELSE "silent"
        /\ clk' = Requested(clk, "LEGACY")
  /\ UNCHANGED <<precise, console, batch, pending, storeVars, told>>

(* Mutant of Earns: a TIME sent before CONSOLE ON counts.                    *)
EarnsAnyway == clk.ok
(* debug_poll_time: only a TIME sent in the session earns a permit.          *)
Earns == clk.ok /\ legacy = "console"

TakeTime ==
  /\ legacy # "none" /\ Answers(clk, {"LEGACY"})
  /\ legacy' = "none" /\ clk' = Taken(clk)
  /\ permit' = Earns
  /\ told' = [told EXCEPT !.time = told.time \/ (clk.ok /\ legacy = "console")]
  /\ UNCHANGED <<precise, console, batch, pending, storeVars>>

(* TIME2 revokes the permit, TIME? does not.                                 *)
SetPrecise(kind) ==
  /\ console /\ ~Busy /\ legacy = "none" /\ files = "none"
  /\ permit' = (permit /\ kind = "QUERY")
  /\ \/ UNCHANGED <<precise, clk>>
     \/ /\ precise = "none" /\ Accepts(clk)
        /\ precise' = kind
        /\ clk' = Requested(clk, kind)
  /\ UNCHANGED <<legacy, console, batch, pending, storeVars, told>>

TakePrecise ==
  /\ precise # "none" /\ Answers(clk, {"PRECISE", "QUERY"})
  /\ LET synced == clk.ok /\ precise = "PRECISE"
     IN  /\ permit' = (permit \/ synced)
         /\ told' = [told EXCEPT !.time = told.time \/ synced]
  /\ precise' = "none" /\ clk' = Taken(clk)
  /\ UNCHANGED <<legacy, console, batch, pending, storeVars>>

-----------------------------------------------------------------------------
(* defaultTask *)

ClockStep(clocks) ==
  /\ clk' \in clocks
  /\ UNCHANGED <<legacy, precise, sessionVars, storeVars, told>>

ClockStart == ~clk.owner /\ ClockStep({[clk EXCEPT !.owner = TRUE]})
ClockRead  == clk.owner /\ clk.state # "APPLYING" /\ ClockStep(Reads(clk))
ClockTake  == clk.state = "PENDING" /\ ClockStep({[clk EXCEPT !.state = "APPLYING"]})
ClockServe == clk.state = "APPLYING" /\ ClockStep(Served(clk))

-----------------------------------------------------------------------------
(* FORECAST commands *)

(* Each begins with forecast_protocol_poll: what it would find is handled    *)
(* first (PollCleared, PollResult).                                          *)
Command == console /\ precise = "none" /\ ~cleared /\ ~pending

IsSaved(id) == ram # NoBatch /\ ram.id = id

(* A new batch uses the permit; the saved one may be sent again without.     *)
Begin(id, count) ==
  /\ Command /\ ~Collecting
  /\ IF IsSaved(id) THEN ram.count = count ELSE permit
  /\ ready /\ ~Transacting /\ files = "none"
  /\ batch' = [id |-> id, count |-> count, days |-> {}]
  /\ permit' = FALSE
  /\ told' = [told EXCEPT !.begun = told.time, !.time = FALSE]
  /\ UNCHANGED <<console, pending, timeVars, storeVars>>

(* Mutant of Room: one day more than announced.                              *)
RoomForOneMore == Cardinality(batch.days) <= batch.count
Room == Cardinality(batch.days) < batch.count

Day(date) ==
  /\ Command /\ Collecting
  /\ date \notin batch.days /\ Room
  /\ batch' = [batch EXCEPT !.days = @ \cup {date}]
  /\ UNCHANGED <<console, permit, pending, timeVars, storeVars, told>>

(* forecast_validate: as many days as announced, without a gap.              *)
Valid(b) ==
  /\ Cardinality(b.days) = b.count
  /\ \A first, last \in b.days, date \in Dates :
       first <= date /\ date <= last => date \in b.days

(* What an OK COMMIT from RAM tells; it is also given while a format the host *)
(* asked for is under way, and then nothing is expected to stay.             *)
ToldSaved ==
  IF files = "none" THEN [told EXCEPT !.saved = ram, !.firm = ~doubt] ELSE told

(* The saved batch sent again is confirmed, and not saved again.             *)
CommitSaved ==
  /\ Command /\ Collecting /\ Valid(batch)
  /\ IsSaved(batch.id) /\ batch = ram
  /\ batch' = NoBatch
  /\ told' = ToldSaved
  /\ UNCHANGED <<console, permit, pending, timeVars, storeVars>>

(* COMMIT repeated after its answer was lost.                                *)
CommitAgain ==
  /\ Command /\ ~Collecting /\ ram # NoBatch
  /\ told' = ToldSaved
  /\ UNCHANGED <<timeVars, sessionVars, storeVars>>

(* A different batch is saved, with the clock trusted and the storage free.  *)
(* From here until the answer the host knows nothing of the flash.           *)
CommitNew ==
  /\ Command /\ Collecting /\ Valid(batch)
  /\ ~IsSaved(batch.id) /\ clk.ready
  /\ ready /\ store.state = "IDLE" /\ files = "none"
  /\ pending' = TRUE
  /\ store' = [state |-> "PENDING", batch |-> batch, ok |-> FALSE]
  /\ told' = [told EXCEPT !.saved = NoBatch, !.firm = FALSE]
  /\ UNCHANGED <<console, permit, batch, timeVars, cleared, files, ready, ram, flash, doubt>>

(* CANCEL, or a minute without a BEGIN or DAY.                               *)
Abandon ==
  /\ ~pending /\ Collecting
  /\ batch' = NoBatch
  /\ UNCHANGED <<console, permit, pending, timeVars, storeVars, told>>

(* forecast_protocol_poll *)
PollCleared ==
  /\ cleared
  /\ cleared' = FALSE /\ permit' = FALSE /\ batch' = Dropped
  /\ UNCHANGED <<console, pending, timeVars, store, files, ready, ram, flash, doubt, told>>

(* Mutant of Confirms: every answer of the storage is one of success.        *)
ConfirmsAnyway == TRUE
Confirms == store.ok

(* A failed batch stays collected, so COMMIT may be tried again.             *)
PollResult ==
  /\ ~cleared /\ pending /\ store.state = "COMPLETE"
  /\ pending' = FALSE
  /\ store' = [store EXCEPT !.state = "IDLE"]
  /\ IF Confirms
     THEN /\ batch' = NoBatch
          /\ told' = [told EXCEPT !.saved = store.batch, !.firm = TRUE]
     ELSE UNCHANGED <<batch, told>>
  /\ UNCHANGED <<console, permit, timeVars, cleared, files, ready, ram, flash, doubt>>

-----------------------------------------------------------------------------
(* storageTask *)

(* The file is replaced by a rename; a failing one may have taken effect.    *)
Rename ==
  /\ store.state = "PENDING"
  /\ flash' = store.batch
  /\ store' = [store EXCEPT !.state = "RENAMED"]
  /\ UNCHANGED <<timeVars, sessionVars, cleared, files, ready, ram, doubt, told>>

SaveFails ==
  /\ store.state = "PENDING"
  /\ flash' \in {flash, store.batch}
  /\ store' = [store EXCEPT !.state = "COMPLETE", !.ok = FALSE]
  /\ doubt' = TRUE
  /\ UNCHANGED <<timeVars, sessionVars, cleared, files, ready, ram, told>>

(* Publication follows the rename and precedes the result.                   *)
Publish ==
  /\ store.state = "RENAMED"
  /\ ram' = store.batch
  /\ store' = [store EXCEPT !.state = "COMPLETE", !.ok = TRUE]
  /\ doubt' = FALSE
  /\ UNCHANGED <<timeVars, sessionVars, cleared, files, ready, flash, told>>

(* After a start, once: the file is read back, or cannot be read.            *)
Restore ==
  /\ store.state = "RESTORE" /\ files = "none"
  /\ ram' \in {flash, ram}
  /\ ready' = TRUE
  /\ store' = [store EXCEPT !.state = "IDLE"]
  /\ UNCHANGED <<timeVars, sessionVars, cleared, files, flash, doubt, told>>

(* FS FORMAT CONFIRM takes the storage, also before the restore.             *)
Format ==
  /\ console /\ ~Busy /\ precise = "none"
  /\ files = "none" /\ ~Transacting
  /\ files' = "running"
  /\ told' = [told EXCEPT !.saved = NoBatch, !.firm = FALSE]
  /\ UNCHANGED <<timeVars, sessionVars, cleared, store, ready, ram, flash, doubt>>

FormatDone ==
  /\ files = "running"
  /\ files' = "complete"
  /\ flash' = NoBatch /\ ram' = NoBatch
  /\ cleared' = TRUE /\ ready' = TRUE /\ doubt' = FALSE
  /\ store' = [store EXCEPT !.state = "IDLE"]
  /\ UNCHANGED <<timeVars, sessionVars, told>>

FormatFails ==
  /\ files = "running"
  /\ files' = "complete"
  /\ flash' \in {flash, NoBatch}
  /\ doubt' = TRUE
  /\ UNCHANGED <<timeVars, sessionVars, cleared, store, ready, ram, told>>

FormatTaken ==
  /\ files = "complete"
  /\ files' = "none"
  /\ UNCHANGED <<timeVars, sessionVars, cleared, store, ready, ram, flash, doubt, told>>

(* Reset or power loss: the flash and what the host was told remain.         *)
Restart ==
  /\ console' = FALSE /\ permit' = FALSE /\ pending' = FALSE /\ batch' = NoBatch
  /\ legacy' = "none" /\ precise' = "none" /\ clk' = ClockInit
  /\ cleared' = FALSE /\ ready' = FALSE /\ files' = "none" /\ doubt' = FALSE
  /\ store' = [state |-> "RESTORE", batch |-> NoBatch, ok |-> TRUE]
  /\ ram' = NoBatch
  /\ told' = [told EXCEPT !.time = FALSE, !.begun = FALSE]
  /\ UNCHANGED flash

-----------------------------------------------------------------------------
Host ==
  \/ ConsoleOn \/ ConsoleOff \/ SetTime \/ Format
  \/ \E kind \in {"PRECISE", "QUERY"} : SetPrecise(kind)
  \/ \E id \in Ids, count \in 1..MaxCount : Begin(id, count)
  \/ \E date \in Dates : Day(date)
  \/ CommitSaved \/ CommitAgain \/ CommitNew \/ Abandon

Polls    == TakeTime \/ TakePrecise \/ PollCleared \/ PollResult \/ FormatTaken
Clocks   == ClockStart \/ ClockRead \/ ClockTake \/ ClockServe
Storages == Rename \/ SaveFails \/ Publish \/ Restore \/ FormatDone \/ FormatFails

Next == Host \/ Polls \/ Clocks \/ Storages \/ Restart

Spec == Init /\ [][Next]_vars

(* Every task comes back to its loop: debugTask polls on every turn, a       *)
(* request wakes defaultTask, storageTask steps while a transaction is open. *)
Fairness ==
  /\ WF_vars(TakeTime) /\ WF_vars(TakePrecise)
  /\ WF_vars(PollCleared) /\ WF_vars(PollResult)
  /\ WF_vars(ClockTake) /\ WF_vars(ClockServe)
  /\ WF_vars(Rename \/ SaveFails) /\ WF_vars(Publish)

FairSpec == Spec /\ Fairness

-----------------------------------------------------------------------------
(* Properties *)

(* docs/forecast_protocol.md: every new batch needs a TIME that succeeded in *)
(* the current console session.  A permit stands for an OK TIME of this      *)
(* session that no BEGIN has used, and a batch on its way to the flash has   *)
(* used one, however commands, late answers and formats interleave.          *)
PermitEarned == (permit => told.time) /\ (pending => told.begun)

(* A batch confirmed by OK COMMIT is the one on flash, through restarts,     *)
(* until another COMMIT or a format is accepted; RAM holds nothing else.     *)
(* Confirmations given from RAM after a failed save are left out here.       *)
ConfirmedIsKept ==
  told.saved # NoBatch /\ told.firm => flash = told.saved /\ ram \in {told.saved, NoBatch}

(* docs/forecast_protocol.md: OK FORECAST COMMIT says that the whole batch   *)
(* is stored, or confirms the same stored batch.                             *)
ConfirmedIsOnFlash == told.saved # NoBatch => flash = told.saved

(* Whatever is accepted is answered: TIME, TIME2, TIME? and COMMIT never     *)
(* stay in flight, where they would refuse every later command.              *)
AllAnswered ==
  /\ legacy # "none" ~> legacy = "none"
  /\ precise # "none" ~> precise = "none"
  /\ pending ~> ~pending

=============================================================================
