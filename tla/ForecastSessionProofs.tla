------------------------- MODULE ForecastSessionProofs -------------------------
(***************************************************************************)
(* Proofs about ForecastSession, for every set of batch numbers and dates   *)
(* and every length of a batch: type correctness, that every batch saved    *)
(* has used a TIME of its console session, and that a confirmed batch is    *)
(* kept.  Typed says what each action does to the types, Linked ties the    *)
(* protocol to the storage's transaction, Begun and Stored are the two      *)
(* arguments, and the theorems combine them.                                *)
(***************************************************************************)
EXTENDS ForecastSession, FiniteSetTheorems, TLAPS

(* The protocol waits exactly while the storage has a transaction, on the   *)
(* batch it has collected; nothing is collected before the restore or while *)
(* a format holds the storage.                                              *)
Linked ==
  /\ pending <=> Transacting
  /\ pending => batch = store.batch /\ batch # NoBatch
  /\ ready <=> store.state # "RESTORE"
  /\ batch # NoBatch => ready /\ files = "none"
  /\ store.state = "RESTORE" => ram = NoBatch

(* A collection that used no TIME is of the saved batch, and stays so.      *)
Begun == PermitEarned /\ (batch # NoBatch /\ ~told.begun => IsSaved(batch.id))

(* Where RAM and flash agree, and what is confirmed.                        *)
Stored ==
  /\ store.state = "RENAMED" => flash = store.batch
  /\ store.state = "COMPLETE" /\ store.ok => flash = store.batch /\ ram = store.batch
  /\ ~doubt /\ ram # NoBatch /\ store.state # "RENAMED" => flash = ram
  /\ told.saved # NoBatch => files = "none" /\ ~pending
  /\ ConfirmedIsKept

IInv == TypeOK /\ Linked /\ Begun /\ Stored

(* Every critical section of the clock service keeps the mailbox typed.     *)
LEMMA ClockTypes ==
  ASSUME NEW c \in Clock
  PROVE  /\ Taken(c) \in Clock
         /\ \A kind \in {"LEGACY", "PRECISE", "QUERY"} : Requested(c, kind) \in Clock
         /\ Reads(c) \subseteq Clock /\ Served(c) \subseteq Clock
         /\ [c EXCEPT !.owner = TRUE] \in Clock /\ [c EXCEPT !.state = "APPLYING"] \in Clock
<1>1. Reads(c) \subseteq Clock /\ Writes(c) \subseteq Clock
  BY DEF Reads, Writes, Clock
<1>2. Refusals(c) \subseteq Clock /\ Queries(c) \subseteq Clock
  <2>1. \A d \in Clock, b \in BOOLEAN : [d EXCEPT !.ok = b] \in Clock
    BY DEF Clock
  <2>2. \A d \in Clock : d.ready \in BOOLEAN
    BY DEF Clock
  <2> QED BY <1>1, <2>1, <2>2 DEF Refusals, Queries
<1>3. \A cs \in SUBSET Clock : Completed(cs) \subseteq Clock
  BY DEF Completed, Clock
<1>4. Served(c) \subseteq Clock
  <2>1. Writes(c) \cup Refusals(c) \in SUBSET Clock /\ Writes(c) \in SUBSET Clock
        /\ Queries(c) \in SUBSET Clock
    BY <1>1, <1>2
  <2>2. /\ Completed(Writes(c)) \subseteq Clock
        /\ Completed(Writes(c) \cup Refusals(c)) \subseteq Clock
        /\ Completed(Queries(c)) \subseteq Clock
    BY <1>3, <2>1
  <2>3. c.kind \in {"LEGACY", "PRECISE", "QUERY"}
    BY DEF Clock
  <2> QED BY <2>2, <2>3 DEF Served
<1> QED BY <1>1, <1>4 DEF Taken, Requested, Clock

(* One more date leaves the candidate a batch, and is counted.              *)
LEMMA DayAdded ==
  ASSUME NEW b \in Batch, NEW date \in Dates, date \notin b.days,
         Cardinality(b.days) < b.count
  PROVE  LET c == [b EXCEPT !.days = @ \cup {date}]
         IN  c \in Batch /\ Cardinality(c.days) <= c.count
<1>1. IsFiniteSet(b.days)
  BY DataAssumption, FS_Subset DEF Batch
<1>2. Cardinality(b.days) \in Nat /\ Cardinality(b.days \cup {date}) = Cardinality(b.days) + 1
  BY <1>1, FS_CardinalityType, FS_AddElement
<1> QED BY <1>2, DataAssumption DEF Batch

(* What the updates of the histories and of the transaction leave typed.     *)
LEMMA ToldTypes ==
  ASSUME NEW t \in Told, NEW b \in BOOLEAN, NEW c \in BOOLEAN, NEW s \in Saved
  PROVE  /\ [t EXCEPT !.time = b] \in Told
         /\ [t EXCEPT !.begun = b, !.time = c] \in Told
         /\ [t EXCEPT !.saved = s, !.firm = b] \in Told
BY DEF Told

LEMMA TransactionTypes ==
  ASSUME NEW t \in Transaction, NEW b \in BOOLEAN
  PROVE  /\ \A state \in {"IDLE", "RENAMED"} : [t EXCEPT !.state = state] \in Transaction
         /\ [t EXCEPT !.state = "COMPLETE", !.ok = b] \in Transaction
         /\ t.batch \in Saved
         /\ \A d \in Saved : [state |-> "PENDING", batch |-> d, ok |-> b] \in Transaction
         /\ [state |-> "RESTORE", batch |-> NoBatch, ok |-> TRUE] \in Transaction
<1>1. NoBatch \in Saved
  BY DEF Saved
<1> QED BY <1>1 DEF Transaction

(* Nothing, and a batch, may be saved.                                       *)
LEMMA SavedTypes == NoBatch \in Saved /\ Batch \subseteq Saved
BY DEF Saved

(* Every action keeps the types.                                             *)
LEMMA TypeStep == TypeOK /\ [Next]_vars => TypeOK'
<1> SUFFICES ASSUME TypeOK, [Next]_vars PROVE TypeOK'
  OBVIOUS
<1> USE DEF TypeOK, vars, timeVars, sessionVars, storeVars, Busy, Collecting, Dropped
<1>1. CASE ConsoleOn
  <2>1. told' \in Told
    BY <1>1, ToldTypes DEF ConsoleOn
  <2>2. batch' \in {batch, NoBatch}
    BY <1>1 DEF ConsoleOn
  <2> QED BY <1>1, <2>1, <2>2, SavedTypes DEF ConsoleOn
<1>2. CASE ConsoleOff
  BY <1>2, SavedTypes, ToldTypes DEF ConsoleOff
<1>3. CASE SetTime
  BY <1>3, ClockTypes DEF SetTime
<1>4. CASE TakeTime
  BY <1>4, ClockTypes, ToldTypes DEF TakeTime, Earns
<1>5. CASE TakePrecise
  BY <1>5, ClockTypes, ToldTypes DEF TakePrecise
<1>6. CASE CommitSaved
  <2>1. ToldSaved \in Told
    BY ToldTypes DEF ToldSaved
  <2> QED BY <1>6, <2>1, SavedTypes DEF CommitSaved
<1>7. CASE CommitAgain
  BY <1>7, ToldTypes DEF CommitAgain, ToldSaved
<1>8. CASE CommitNew
  BY <1>8, ToldTypes, TransactionTypes, SavedTypes DEF CommitNew
<1>9. CASE Abandon
  BY <1>9, SavedTypes DEF Abandon
<1>10. CASE PollCleared
  BY <1>10, SavedTypes DEF PollCleared
<1>11. CASE PollResult
  <2>1. store' \in Transaction
    BY <1>11, TransactionTypes DEF PollResult
  <2>2. store.batch \in Saved
    BY TransactionTypes
  <2>3. told' \in Told
    BY <1>11, <2>2, ToldTypes DEF PollResult
  <2>4. batch' \in {batch, NoBatch}
    BY <1>11 DEF PollResult
  <2> QED BY <1>11, <2>1, <2>3, <2>4, SavedTypes DEF PollResult
<1>12. CASE Rename
  BY <1>12, TransactionTypes DEF Rename
<1>13. CASE SaveFails
  <2>1. store' \in Transaction
    BY <1>13, TransactionTypes DEF SaveFails
  <2>2. flash' \in Saved
    BY <1>13, TransactionTypes DEF SaveFails
  <2> QED BY <1>13, <2>1, <2>2 DEF SaveFails
<1>14. CASE Publish
  BY <1>14, TransactionTypes DEF Publish
<1>15. CASE Restore
  BY <1>15, TransactionTypes DEF Restore
<1>16. CASE Format
  BY <1>16, ToldTypes, SavedTypes DEF Format
<1>17. CASE FormatDone
  BY <1>17, TransactionTypes, SavedTypes DEF FormatDone
<1>18. CASE FormatFails
  BY <1>18, SavedTypes DEF FormatFails
<1>19. CASE FormatTaken
  BY <1>19 DEF FormatTaken
<1>20. CASE Restart
  BY <1>20, ToldTypes, TransactionTypes, SavedTypes DEF Restart, ClockInit, Clock
<1>21. ASSUME NEW kind \in {"PRECISE", "QUERY"}, SetPrecise(kind) PROVE TypeOK'
  BY <1>21, ClockTypes DEF SetPrecise
<1>22. ASSUME NEW id \in Ids, NEW count \in 1..MaxCount, Begin(id, count) PROVE TypeOK'
  <2>1. told.time \in BOOLEAN
    BY DEF Told
  <2>4. told' \in Told
    BY <1>22, <2>1, ToldTypes DEF Begin
  <2>2. batch' \in Batch
    BY <1>22 DEF Begin, Batch
  <2>3. Cardinality(batch'.days) <= batch'.count
    BY <1>22, FS_EmptySet, DataAssumption DEF Begin
  <2> QED BY <1>22, <2>2, <2>3, <2>4, SavedTypes DEF Begin
<1>23. ASSUME NEW date \in Dates, Day(date) PROVE TypeOK'
  <2>1. batch \in Batch /\ date \notin batch.days /\ Cardinality(batch.days) < batch.count
    BY <1>23 DEF Day, Room, Saved
  <2>2. batch' \in Batch /\ Cardinality(batch'.days) <= batch'.count
    BY <1>23, <2>1, DayAdded DEF Day
  <2> QED BY <1>23, <2>2, SavedTypes DEF Day
<1>24. CASE Clocks
  <2>1. clk' \in Clock
    <3>1. Reads(clk) \subseteq Clock /\ Served(clk) \subseteq Clock
          /\ [clk EXCEPT !.owner = TRUE] \in Clock /\ [clk EXCEPT !.state = "APPLYING"] \in Clock
      BY ClockTypes
    <3> QED BY <1>24, <3>1 DEF Clocks, ClockStart, ClockRead, ClockTake, ClockServe,
        ClockStep
  <2>2. UNCHANGED <<legacy, precise, sessionVars, storeVars, told>>
    BY <1>24 DEF Clocks, ClockStart, ClockRead, ClockTake, ClockServe, ClockStep
  <2> QED BY <2>1, <2>2
<1>25. CASE UNCHANGED vars
  BY <1>25 DEF vars
<1> QED BY <1>1, <1>2, <1>3, <1>4, <1>5, <1>6, <1>7, <1>8, <1>9, <1>10, <1>11, <1>12,
    <1>13, <1>14, <1>15, <1>16, <1>17, <1>18, <1>19, <1>20, <1>21, <1>22, <1>23,
    <1>24, <1>25 DEF Next, Host, Polls, Storages

(* The links between the protocol and the storage.                           *)
LEMMA LinkStep == TypeOK /\ Linked /\ [Next]_vars => Linked'
<1> SUFFICES ASSUME TypeOK /\ Linked, [Next]_vars PROVE Linked'
  OBVIOUS
<1> USE DEF Linked, Transacting, TypeOK, Transaction, Told, Saved, vars, timeVars,
    sessionVars, storeVars, Busy, Collecting, Dropped
<1>1. CASE ConsoleOn
  BY <1>1 DEF ConsoleOn
<1>2. CASE ConsoleOff
  BY <1>2 DEF ConsoleOff
<1>3. CASE SetTime
  BY <1>3 DEF SetTime
<1>4. CASE TakeTime
  BY <1>4 DEF TakeTime
<1>5. CASE TakePrecise
  BY <1>5 DEF TakePrecise
<1>6. CASE CommitSaved
  BY <1>6 DEF CommitSaved, Command
<1>7. CASE CommitAgain
  BY <1>7 DEF CommitAgain
<1>8. CASE CommitNew
  BY <1>8 DEF CommitNew, Command
<1>9. CASE Abandon
  BY <1>9 DEF Abandon
<1>10. CASE PollCleared
  BY <1>10 DEF PollCleared
<1>11. CASE PollResult
  BY <1>11 DEF PollResult, Confirms
<1>12. CASE Rename
  BY <1>12 DEF Rename
<1>13. CASE SaveFails
  BY <1>13 DEF SaveFails
<1>14. CASE Publish
  BY <1>14 DEF Publish
<1>15. CASE Restore
  BY <1>15 DEF Restore
<1>16. CASE Format
  BY <1>16 DEF Format
<1>17. CASE FormatDone
  BY <1>17 DEF FormatDone
<1>18. CASE FormatFails
  BY <1>18 DEF FormatFails
<1>19. CASE FormatTaken
  BY <1>19 DEF FormatTaken
<1>20. CASE Restart
  BY <1>20 DEF Restart
<1>21. ASSUME NEW kind \in {"PRECISE", "QUERY"}, SetPrecise(kind) PROVE Linked'
  BY <1>21 DEF SetPrecise
<1>22. ASSUME NEW id \in Ids, NEW count \in 1..MaxCount, Begin(id, count) PROVE Linked'
  BY <1>22 DEF Begin, Command
<1>23. ASSUME NEW date \in Dates, Day(date) PROVE Linked'
  BY <1>23, NoBatchAssumption, DayAdded DEF Day, Command, Room
<1>24. CASE Clocks
  <2>1. UNCHANGED <<legacy, precise, sessionVars, storeVars, told>>
    BY <1>24 DEF Clocks, ClockStart, ClockRead, ClockTake, ClockServe, ClockStep
  <2> QED BY <2>1
<1>25. CASE UNCHANGED vars
  BY <1>25 DEF vars
<1> QED BY <1>1, <1>2, <1>3, <1>4, <1>5, <1>6, <1>7, <1>8, <1>9, <1>10, <1>11, <1>12,
    <1>13, <1>14, <1>15, <1>16, <1>17, <1>18, <1>19, <1>20, <1>21, <1>22, <1>23,
    <1>24, <1>25 DEF Next, Host, Polls, Storages

(* A batch on its way to the flash has used a TIME.                          *)
LEMMA BegunStep == TypeOK /\ Linked /\ Begun /\ [Next]_vars => Begun'
<1> SUFFICES ASSUME TypeOK /\ Linked /\ Begun, [Next]_vars PROVE Begun'
  OBVIOUS
<1> USE DEF Begun, PermitEarned, IsSaved, Linked, Transacting, TypeOK, Transaction,
    Told, Saved, vars, timeVars, sessionVars, storeVars, Busy, Collecting, Dropped
<1>1. CASE ConsoleOn
  BY <1>1 DEF ConsoleOn
<1>2. CASE ConsoleOff
  BY <1>2 DEF ConsoleOff
<1>3. CASE SetTime
  BY <1>3 DEF SetTime
<1>4. CASE TakeTime
  BY <1>4 DEF TakeTime, Earns
<1>5. CASE TakePrecise
  BY <1>5 DEF TakePrecise
<1>6. CASE CommitSaved
  BY <1>6 DEF CommitSaved, Command, ToldSaved
<1>7. CASE CommitAgain
  BY <1>7 DEF CommitAgain, ToldSaved
<1>8. CASE CommitNew
  BY <1>8 DEF CommitNew, Command
<1>9. CASE Abandon
  BY <1>9 DEF Abandon
<1>10. CASE PollCleared
  BY <1>10 DEF PollCleared
<1>11. CASE PollResult
  BY <1>11 DEF PollResult, Confirms
<1>12. CASE Rename
  BY <1>12 DEF Rename
<1>13. CASE SaveFails
  BY <1>13 DEF SaveFails
<1>14. CASE Publish
  BY <1>14 DEF Publish
<1>15. CASE Restore
  BY <1>15 DEF Restore
<1>16. CASE Format
  BY <1>16 DEF Format
<1>17. CASE FormatDone
  BY <1>17 DEF FormatDone
<1>18. CASE FormatFails
  BY <1>18 DEF FormatFails
<1>19. CASE FormatTaken
  BY <1>19 DEF FormatTaken
<1>20. CASE Restart
  BY <1>20 DEF Restart
<1>21. ASSUME NEW kind \in {"PRECISE", "QUERY"}, SetPrecise(kind) PROVE Begun'
  BY <1>21 DEF SetPrecise
<1>22. ASSUME NEW id \in Ids, NEW count \in 1..MaxCount, Begin(id, count) PROVE Begun'
  BY <1>22 DEF Begin, Command
<1>23. ASSUME NEW date \in Dates, Day(date) PROVE Begun'
  BY <1>23 DEF Day, Command
<1>24. CASE Clocks
  <2>1. UNCHANGED <<legacy, precise, sessionVars, storeVars, told>>
    BY <1>24 DEF Clocks, ClockStart, ClockRead, ClockTake, ClockServe, ClockStep
  <2> QED BY <2>1
<1>25. CASE UNCHANGED vars
  BY <1>25 DEF vars
<1> QED BY <1>1, <1>2, <1>3, <1>4, <1>5, <1>6, <1>7, <1>8, <1>9, <1>10, <1>11, <1>12,
    <1>13, <1>14, <1>15, <1>16, <1>17, <1>18, <1>19, <1>20, <1>21, <1>22, <1>23,
    <1>24, <1>25 DEF Next, Host, Polls, Storages

(* RAM, flash and what was confirmed.                                        *)
LEMMA StoredStep == TypeOK /\ Linked /\ Stored /\ [Next]_vars => Stored'
<1> SUFFICES ASSUME TypeOK /\ Linked /\ Stored, [Next]_vars PROVE Stored'
  OBVIOUS
<1> USE DEF Stored, ConfirmedIsKept, Linked, Transacting, TypeOK, Transaction, Told,
    Saved, vars, timeVars, sessionVars, storeVars, Busy, Collecting, Dropped
<1>1. CASE ConsoleOn
  BY <1>1 DEF ConsoleOn
<1>2. CASE ConsoleOff
  BY <1>2 DEF ConsoleOff
<1>3. CASE SetTime
  BY <1>3 DEF SetTime
<1>4. CASE TakeTime
  BY <1>4 DEF TakeTime
<1>5. CASE TakePrecise
  BY <1>5 DEF TakePrecise
<1>6. CASE CommitSaved
  BY <1>6 DEF CommitSaved, Command, ToldSaved
<1>7. CASE CommitAgain
  BY <1>7 DEF CommitAgain, Command, ToldSaved
<1>8. CASE CommitNew
  BY <1>8 DEF CommitNew, Command
<1>9. CASE Abandon
  BY <1>9 DEF Abandon
<1>10. CASE PollCleared
  BY <1>10 DEF PollCleared
<1>11. CASE PollResult
  BY <1>11 DEF PollResult, Confirms
<1>12. CASE Rename
  BY <1>12 DEF Rename
<1>13. CASE SaveFails
  BY <1>13 DEF SaveFails
<1>14. CASE Publish
  BY <1>14 DEF Publish
<1>15. CASE Restore
  BY <1>15 DEF Restore
<1>16. CASE Format
  BY <1>16 DEF Format
<1>17. CASE FormatDone
  BY <1>17 DEF FormatDone
<1>18. CASE FormatFails
  BY <1>18 DEF FormatFails
<1>19. CASE FormatTaken
  BY <1>19 DEF FormatTaken
<1>20. CASE Restart
  BY <1>20 DEF Restart
<1>21. ASSUME NEW kind \in {"PRECISE", "QUERY"}, SetPrecise(kind) PROVE Stored'
  BY <1>21 DEF SetPrecise
<1>22. ASSUME NEW id \in Ids, NEW count \in 1..MaxCount, Begin(id, count) PROVE Stored'
  BY <1>22 DEF Begin, Command
<1>23. ASSUME NEW date \in Dates, Day(date) PROVE Stored'
  BY <1>23 DEF Day
<1>24. CASE Clocks
  <2>1. UNCHANGED <<legacy, precise, sessionVars, storeVars, told>>
    BY <1>24 DEF Clocks, ClockStart, ClockRead, ClockTake, ClockServe, ClockStep
  <2> QED BY <2>1
<1>25. CASE UNCHANGED vars
  BY <1>25 DEF vars
<1> QED BY <1>1, <1>2, <1>3, <1>4, <1>5, <1>6, <1>7, <1>8, <1>9, <1>10, <1>11, <1>12,
    <1>13, <1>14, <1>15, <1>16, <1>17, <1>18, <1>19, <1>20, <1>21, <1>22, <1>23,
    <1>24, <1>25 DEF Next, Host, Polls, Storages

LEMMA Initially == Init => IInv
<1> SUFFICES ASSUME Init PROVE IInv
  OBVIOUS
<1> USE DEF Init
<1>1. TypeOK
  BY DEF TypeOK, Saved, Told, Transaction, ClockInit, Clock
<1>2. Linked /\ Begun /\ Stored
  BY DEF Linked, Transacting, Begun, PermitEarned, Stored, ConfirmedIsKept
<1> QED BY <1>1, <1>2 DEF IInv

LEMMA Inductive == Spec => []IInv
<1>1. IInv /\ [Next]_vars => IInv'
  BY TypeStep, LinkStep, BegunStep, StoredStep DEF IInv
<1> QED BY Initially, <1>1, PTL DEF Spec

(* The session, the mailbox, the transaction and the candidate keep their   *)
(* types; no batch collects more days than it announced.                    *)
THEOREM TypeCorrect == Spec => []TypeOK
<1>1. IInv => TypeOK
  BY DEF IInv
<1> QED BY Inductive, <1>1, PTL

(* A permit stands for an OK TIME of this session, and every batch on its   *)
(* way to the flash has used one, for any number of batches and commands.   *)
THEOREM EveryBatchHasATime == Spec => []PermitEarned
<1>1. IInv => PermitEarned
  BY DEF IInv, Begun
<1> QED BY Inductive, <1>1, PTL

(* A batch confirmed with no failure in doubt stays on the flash through    *)
(* restarts, until the host commits another or formats.                     *)
THEOREM ConfirmedStays == Spec => []ConfirmedIsKept
<1>1. IInv => ConfirmedIsKept
  BY DEF IInv, Stored
<1> QED BY Inductive, <1>1, PTL

=============================================================================
