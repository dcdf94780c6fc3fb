# Verification of the desk clock firmware

TLA+ models of the application layer of the low-power e-ink desk clock
(STM32L471, FreeRTOS, W25Q128 flash, 2.9" panel), the TLC configurations that
check them and the theorems TLAPS proves about them. Paths are relative to the
repository. `PROJECT.json` gives for every definition the lines it stands for,
for every property the mutated definition that breaks it, and for every hazard
the properties that watch it.

## 1. The system

| task (`Core/Src/freertos.c`) | priority | what it runs |
|---|---|---|
| `defaultTask` | Normal | `clock_service_run`: RTC, set-time requests |
| `displayTask` | Normal | `display.c`, `epd_bringup.c`: pages, refresh of the panel |
| `accelTask`, `buttonsTask` | AboveNormal | interrupt latches, debouncing, gestures |
| `debugTask` | BelowNormal | console, DCFS, forecast and weather protocols, `weather_feed_expire`; only user of the UART transmitter |
| `storageTask` | BelowNormal | only user of the flash: format record, files, forecast, scan |
| idle | idle | `vPortSuppressTicksAndSleep`: STOP2 when no sleep veto is set |

`debugTask` and `storageTask` have the same priority and share the processor by
time slices, so any order of their critical sections can happen. Tasks talk
through copies under `taskENTER_CRITICAL`, one-place mailboxes whose result is
kept until its client takes it, and queues of length one.

| component | state | operations | talks to | correct when |
|---|---|---|---|---|
| Storage service, `app/storage.c` | file mailbox, forecast transaction, format request, owner lock, wake queue, scan pause, `POWER_BLOCK_STORAGE` | `storage_maintenance_acquire/release`, `storage_files_request/poll/take`, `storage_forecast_request/poll/take`, `storage_request_format`, scan pause; the loop of `storageTask` | `file_store`, `clock_config`, `forecast`, `power`; called by `debugTask` | one owner at a time; nobody touches another client's upload or gets another's answer; no wake-up lost; no sleep over unfinished work and no veto left behind; RAM never ahead of flash |
| Console side, `app/debug.c`, `file_transfer.c`, `forecast_protocol.c` | session kind, request being waited for, cleanup | enter, submit, take, exit, time-out, cleanup | storage mailboxes | the lock is held exactly as long as the session |
| Display format, `app/clock_config.c` | two flash sectors, trusted copy, displayed format | load, save (erase, body, read back, mark, read back), reload after failure | flash driver | a stored format survives any failure or cut; the newer record wins across the wrap of its number |
| Weather feed, `app/weather_feed.c` | two slots, staged upload, last batch, revision, attention event, pins | BEGIN, data lines, COMMIT, CANCEL, time-outs, `weather_feed_expire`, snapshot / acquire / release | host; `displayTask` | a reader draws one batch; an acknowledged batch is displayed and published once; an event is raised for what it should be, once |
| File store, `middleware/file_store.c` | mount state, one upload, verification in chunks | mount, operations, step | littlefs | old or new file after a cut |
| DCFS, `app/file_transfer.c` | frame parser, cached answer, sequence, idle timer | frames, EXIT, idle time-out | host, storage | each frame acts once |
| Forecast protocol, `app/forecast_protocol.c`, `forecast.c` | staged days, last batch | BEGIN, DAY, COMMIT | host, storage | a batch is saved once, whole |
| Clock service, `app/clock_service.c`, `time_protocol.c`, `clock_model.c` | one-place set-time request | set, read, tick | RTC, `debugTask` | an answer belongs to its request |
| Power, `app/power.c`, `platform/stm32_low_power.c`, `low_power_time.c` | vetoes, mode, boot and motion windows, tick compensation | veto set / clear, STOP2 entry and exit | every task, interrupts | no sleep past an event; ticks neither lost nor invented |
| Display, `app/display.c`, `epd_bringup.c` | page, pending events, retry | select, poll, refresh | feed, clock, buttons | every event shown, refresh retried a bounded number of times |
| Motion and buttons | latches, filter | interrupt, poll, release veto | power, display | no edge lost |
| Debug UART | receive ring, transmit state | interrupt, suspend, resume | `debugTask`, STOP2 | no byte lost silently |

What is hard here: interleavings of equal-priority tasks between two critical
sections; state copied under the lock and used after it; power cut inside a
multi-step flash write; hosts that repeat lines whose answer was lost; counters
and stamps at their limits; sleeping over work that has just been accepted.
`PROJECT.json` lists 40 such hazards with their lines and the properties that
watch them, or a note that says where they are treated.

## 2. Modules

| module | models | proofs |
|---|---|---|
| `FileEngine` | `file_store.c` as `storage.c` sees it: the set of outcomes of every call and step | |
| `Storage` (extends `FileEngine`) | all of `storageTask`, and `debugTask` as its client | `StorageProofs`, `StorageWakeProofs` |
| `ConfigRegister` | abstract specification: one stored value that survives power loss | |
| `ClockConfig` | `clock_config.c` and `s_config_process`; implements `ConfigRegister` | `ClockConfigProofs` |
| `WeatherFeed` | `weather_feed.c`, the readers' leases, the host | `WeatherFeedProofs` |
| `FileStore` | `file_store.c` with contents, over a flash that keeps file and temporary through cuts | |
| `AtomicFile` | abstract specification: a file changes as a whole, at most once, and not after a definite answer | |
| `FileTransfer` (extends `FileStore`) | DCFS: `file_transfer.c`, the client of `tools/file_store_cli.py`, the line, the mailbox; implements `AtomicFile` | `FileTransferProofs` |
| `Power` | `power.c`: vetoes, faults, modes, windows over wrapping ticks | |
| `Sleep` (extends `Power`) | the STOP2 entry and exit against buttons, accelerometer and UART receiver | `SleepProofs` |
| `LowPowerTime` | the tick compensation, the deadline and the compare value of the tickless port | `LowPowerTimeProofs` |
| `TimeService` | `clock_service.c`: the one-place time mailbox and the trust of the RTC | |
| `ForecastSession` (extends `TimeService`) | console sessions: TIME, TIME2, forecast batches, saves, formats, restarts | `ForecastSessionProofs` |
| `MCStorage`, `MCWeatherFeed`, `MCFileTransfer`, `MCSleep`, `MCLowPowerTime` | definitions for TLC only: symmetry, the reports and files that are sent, finite ranges | |

Three pairs look at one component from two sides. `FileEngine` has the schedule
of the file store and no contents, `FileStore` the contents and the power cuts.
`Storage` has the steps of a save and who owns the storage, `ForecastSession`
the conversation with the host around it. `Sleep` is about when the device may
stop, `LowPowerTime` about what the stop does to the clock.

### Storage

An action is one critical section with the private work around it. `storage` is
the program counter of `storageTask`: *boot, load, mount, top, reinit, runnable,
wait, veto, receive, save, process, forecast, forecastStep, execute, step,
publish*, in the order of the loop at `storage.c:570-735`. The reading of a
flag (`runnable`, `wait`, `veto`) is an action apart from its use, as in the
code; `plan` holds the two locals that carry it. `debugTask` is one actor with a
continuation `dnext`, because between leaving the lock and sending the wake-up
it can be preempted (`dwake`). `dmode` is the session: console, one text command, binary,
or its two cleanup states. Only `debugTask` ever calls these entry points, so
there is one client.

Files are not modelled, only whose upload exists and who asked for what.
`FileEngine` returns for each call the set of results littlefs may produce, with
or without a fault that puts the engine in ERROR; `upload` is a flag in the code
and says here also who began it (a history value). A forecast is a batch name;
`saved` is what `/forecast.bin` holds, `published` what RAM holds. A forecast
that has been accepted was validated, so encoding and publishing it do not
fail and their error branches cannot be reached.

### ClockConfig

A record is erased, torn (anything that does not validate), a verified body
without its mark, or valid with number and format. Each flash operation does
all, none or part of its work and may report failure whatever it did; power may
be lost before, in or after each of them (`Partly`). Sequence numbers are taken
modulo `2 * Half`; the code has `Half = 2^31`. The record's CRC is part of
"validates". The mark of a degraded sector (`clock_config.c:145`) is in the model but decides nothing.

### WeatherFeed

A command is one action: outside its critical section it touches only the
staged slot, which no reader can pin (this is `StagedInv`, proved). Readers act
between any two actions, a superset of what the higher priority of
`displayTask` allows. The lease of a console page command is taken and given back
inside `debugTask`, so nothing can happen within it. `Expire` is one pass of the loop
that found the clock trusted; a pass that does not is no step.

The first data line of a batch stands for the values, the last one for the
alerts, and `lines` for the sequence number and the CRC over what was received.
What BEGIN says (city, alert state, time of the check) is in the slot and in no
line, as in the code, so two reports may have the same data lines (finding 2).
Severity and urgency are one level.
Stamps are small numbers; the two stamps that may be absent have values of their
own outside the range.

The host is not in the repository. It follows
`docs/weather_feed_protocol.md`: a line is repeated until it is answered, a
refused upload is cancelled and begun again, BUSY is answered by STATUS, an id that is
taken by the next one. Beyond that it may restart and use its id again, with
another report; `host.begun` remembers the reports it used the id for. A lost answer, a receive error, the sixty-second time-out and a
restart each take one of `MaxFaults`.

`announced` (alerts that have drawn attention) and `event` (revision of the last
event) are history variables. They guard nothing.

### FileStore and FileTransfer

A file is a sequence of chunks, one per WRITE; a CRC-32 is the content it was
computed from. Each operator of `FileStore` gives the outcomes of one call; any
littlefs step may fail, with an IO error (the mount then goes to ERROR) or
without, and a rename that fails may have taken effect all the same.

`FileTransfer` has four actors: one invocation of the host program per session
number, the line, which loses frames (a damaged one is dropped by its CRC),
`debugTask` and `storageTask`. Power may go between any two steps. There is no
clock: a time-out may expire whenever the code tests it. The host is
stop-and-wait, so the branch that answers frames out of turn is not reached;
retries are not bounded. While the port is closed answers are not heard. Text
commands are typed only when no frame is under way and no session is open.
Answers are told from each other by session and sequence number, the same
fields the code compares.

### Power and Sleep

`Power` is one record; every operator is one call of `power.c`. A window is the
age the code computes, `now - start` modulo the width of the tick counter.

In `Sleep` the tasks run while the scheduler does: `buttonsTask` and `accelTask`
interleave freely, `debugTask` runs while both wait, the idle task while all do.
The idle task suspends the scheduler, looks at the vetoes (`IdleLook`), masks the
interrupts, checks everything again (`IdleMask`), suspends the receiver, checks
once more, and stops (`IdleStop`) or gives up; the hardware never waits. One
key, the motion pin and the receive line each have their pending bit; the
key's filter and the ring are those of the code, small.

`Elapse` is a tick. Only a look at the windows and a movement read the count, so
ticks pass in the model where all tasks wait. Nothing bounds the time between
two looks: in HOLD the delay of 1 ms in `accelTask` keeps the expected idle time
below ten ticks and the port returns before it looks (`stm32_low_power.c:229`), and after `s_error`
it returns there for ever. `POWER STATUS` is the other look. `clock` is
the true age of each window: the ticks counted, `Over` once a look has found
it ended, and `Missed` when nobody looked between its end and the wrap.

`s_error` clears `ready` and sets a fault until a reset; the two happen together,
so one fault (`Locked`) stands for both, and for both categories. A compare value that is not taken, a
counter that does not settle, clock registers that are not as configured and a failed start
all lead there. `IdleHalt` is `s_fatal`.

Left out: the transmitter and its veto, what a line says, the
statistics, the display, clock and storage owners (same pattern; the veto of the
storage is in `Storage`), HOLD's telemetry, and the 256-byte limit of a line.

### LowPowerTime

The operators are those of `low_power_time.c` and `s_program_compare`, with the
frequencies of the code. A pass of the port is one step, whether it reached the
WFI or not: entry cycles, counts of the LPTIM, cycles of the conversion. `ran`
and `slept` are history. SysTick is restarted with what is left of the running
tick; that a reload of 0 stops it is its definition in the ARMv7-M
architecture, and not in the repository. The HAL tick of TIM17, which is
compensated by the same functions, is left out; so are the few cycles between
the last reading of the cycle counter and the restart.

### TimeService and ForecastSession

The host may send any command at any time, so repeating one after a lost answer
is among its behaviours; a refusal that changes nothing is no action. A day's
weather is told by its date. The two token counters may coincide, so answers are
told by their kind. WRITE, COMMIT, VERIFY and CLEANUP of a save are one step here
(they are apart in `Storage`), and a remount is no action: as a rule it reloads
nothing (section 5). The exception is not modelled: a maintenance request that takes
the owner right after `storage.c:607` publishes READY, and the restore that follows finds
it and reloads RAM. Left out: `clock_service_mark_unavailable`, which only a failed start calls,
the refusals while the weather feed or the display format is busy, calendar
arithmetic. The collection time-out may expire at any time.

A TIME that is still in flight when the saved batch is sent again is answered
during the collection and earns a permit for the next one. That is what the code does, and it does not
contradict the documentation.

## 3. Runs

| run | shows | distinct states |
|---|---|---|
| `storage_safety` | the service in every interleaving: one owner, no foreign upload or answer, no lost wake-up, sleep only when idle, veto recomputed, nothing published before flash has it | 2.1 M |
| `storage_live` | in AUTO every accepted file, forecast and format request is answered | 0.2 M |
| `clock_config` | one register behind two sectors, through failures, cuts and the wrap | 3 k |
| `feed` | repeats, drops and restarts with alerts that appear, take effect and replace each other: the reader sees one batch, an OK means that these data lines are displayed, published once, an event has a revision of its own (but for one named case), a host that goes on gets its batch published or is told its id is taken | 0.3 M |
| `transfer` | each request of the file tool executed once and answered with its own result, COMMIT and REMOVE atomic through losses, failures and a cut, an abandoned session closed | 1.2 M |
| `sleep` | a stop only over owners at rest with an interrupt armed to end it, no event lost, windows that end, and the device sleeps again unless a fault of its timer has locked it awake | 0.3 M |
| `session` | a batch has used a TIME of its session, a confirmed batch stays on flash, everything accepted is answered | 0.3 M |
| `storage_lock` | finding 1 | |
| `feed_conflict` | finding 2 | |
| `feed_in_force` | finding 3 | |
| `session_stale` | finding 4 | |
| `low_power` | finding 5 | |

### Bounds

* `MaxChunks` (a verification or blank check): 0 for safety, 1 for liveness. A
  chunk changes nothing any other client reads; one step that does not finish is
  enough to be interrupted in, and with 0 the commit still spans request and poll.
* `Batches`: two, one to be on flash and one to replace it; interchangeable.
* `PeerOps`: BEGIN, COMMIT and FORMAT create, end and destroy an upload; the
  other operations do not interfere with another client and appear in
  `storage_live` (WRITE, SIMPLE, SELFTEST). CANCEL comes with every cleanup.
* `PeerModes`: both in `storage_safety`; AUTO only in `storage_live`, because in
  HOLD the running scan polls the mailbox and hides a missing wake-up.
* `Half = 3`: six numbers, so a wrap, both sides of half range and a record
  that is neither neighbour exist. The theorem is for any `Half > 1`.
* `feed`: `Lines = 2`: a first line, a last one, one to repeat. `MaxId = 2`: the
  displayed batch and one being sent, which with a restart may be the displayed one again.
  `MaxFaults = 2`: an answer lost
  and a restart in the same behaviour. `MaxTime = 2`: before, at and after each
  stamp. The reports are an alert that takes effect later, that alert listed after one it
  replaces and that expires, and the first report for another city, which has the same data lines.
  One reader: with two, who hold leases
  in turn, a BEGIN need never find the spare slot free, and the protocol does
  not promise it then. OFFLINE reports and several readers
  are not in this instance; the theorems hold for every set of reports and readers.
* `transfer`: `Sessions = 2`: an abandoned session and the one that follows it.
  `LineMax = 1` frame in flight each way, enough for a repeated frame to meet
  the answer to its first copy. `Entries = 1`, `Cuts = 1`. One upload of one chunk, and a
  source that changes after its checksum.
* `sleep`: `Ticks = 2` with windows of 1: after one further tick an age wraps and a window
  that ended would open again. `RingSize = 1`: full with one byte.
  `Scenarios` is the set of how many events of each kind one behaviour may have: a
  press alone, or any two movements, bytes and failures in any order and at any
  points. Two are what it takes for an event to meet what another one has changed: a movement
  in the switch to HOLD, a failure while a movement is read, a byte on a full ring, a second failure in
  the recovery from the first. A press together with another event is not in this instance,
  whose states it would multiply: `SleepsAgain` is checked for a press alone. The safety
  properties are theorems for any number of events, a press among them or not.
* `session`: two ids, two dates, batches of up to two days: the saved batch,
  another with its id, another with another id, a gap between days.
* `low_power`: stretches of 1 to 10000 cycles, so every phase is reached; stops
  cut short by an interrupt, because TLC's integers have 32 bits.

Deadlock is checked in every run but `low_power`, where the device halts: no state
of the other models is without a step.

### Fairness

* `storage_live`: weak fairness of `storageTask` (which includes its short
  timed waits) and of `debugTask`'s continuation: equal priority with time
  slicing (`configUSE_TIME_SLICING`), and each step returns. Strong fairness for
  cancelling at a cleanup and for taking a result: the debug loop polls them in
  every pass, while commands may come and go between passes. The hourly wait of
  AUTO is never assumed to expire, so a request answered only by it counts as lost.
* `feed`: weak fairness of the host's next command and of moving on to the
  next id; a reader releases its lease (drawing ends, also after a panel
  error); strong fairness of an answered BEGIN, since a drawing takes seconds
  and the host retries for as long as it takes: it must find the slot free
  again and again, not always. Faults are finite in number.
* `transfer`: weak fairness of the two tasks together with a silence that is
  noticed; silence is certain only once no host program runs. The host
  owes nothing and the line may lose everything.
* `sleep`: weak fairness of every task and interrupt, strong for what a task
  tests in each pass of its loop (a sample that finds the key steady, a line that is
  timed out) and for the tick and the idle task's look and stop, because the tasks that
  delay them come back. `debugTask` wakes again and again (its wait is at most a second),
  and all tasks are blocked again and again, as their waits are long against
  the work between them. Nothing makes the timer or the clock work: `SleepsAgain`
  allows the locked device.
* `session`: `debugTask` polls both mailboxes in every turn, a request wakes
  `defaultTask`, and `storageTask` goes on while a transaction is open (that it
  does is `storage_live`).

## 4. Proofs

Every theorem holds for all values of the constants. Each safety theorem follows from
an inductive invariant: it holds initially, each action preserves it (one step
per action, one per conjunct it can disturb), and it implies the property.

**`StorageProofs`** (`TypeCorrect`, `OwnershipSafe`, `UploadSafe`, `AnswerSafe`).
None of the three properties is inductive alone: that an upload of the file
client ends with its session depends on what the client may ask for in each kind
of session, and that depends on whose turn `storageTask` took several critical
sections earlier. `IInv` adds `SessionInv` (what `debugTask` waits for in
each mode), `TurnInv` (what its program counter says about `storageTask`) and
`UploadInv` (which client an upload or a verification belongs to). The lemmas
`...Facts` say what each call of the engine can return.

**`StorageWakeProofs`** (`WakeSafe`, `SleepSafe`, `VetoSafe`, `SaveSafe`, `PublishSafe`)
goes on from `IInv`. That no wake-up is lost needs to be known at every step of
`storageTask` from the one that takes its turn to the one that waits: `WakeInv` says what a
message must be due for (`MessageDue`: one is in the queue or `debugTask` is about to
send one) at each of them, and `ConfigInv` where a format request is meanwhile.
The veto is computed from the snapshot under the lock, so `SyncInv` says when the snapshot
is the engine's state, the exception being a mount that was just tried again;
`IdleInv` follows for the wait itself. `SaveSafe` needs that between the result and its
being taken no other client may touch the file, which is `OwnershipSafe`.
`PublishSafe` is an action property of the same invariant.

**`ClockConfigProofs`** (`TypeCorrect`, `SuccIsNewer`, `NeighboursAlways`, `SavesFromTheFlash`,
`ShownIsLoaded`, `NeverLost`, `ConfigImplementsRegister`). `SuccIsNewer` is the
arithmetic: for every width the successor compares as newer. Two valid
records remain neighbours because a save starts from the record a restart would
load (`ActiveInv`, `BlankInv`) and erases the other sector (`TargetInv`). The
lemma `OtherSector` reduces each flash operation, whole, partial or cut, to the
sector it works on. With `DoneInv` and `ShownInv` each step maps to a step of
`ConfigRegister` or to a stutter, under `value <- Loaded(flash).format`, what a
restart would display.

**`WeatherFeedProofs`** (`TypeCorrect`, `DrawsOneBatch`, `ToldIsShown`,
`PublishesOnce`, `AttentionSafe`, `EventsAreNew`). A layered invariant, each
layer using those before it:
1. `Typed`, and `PinsInv`: a slot's pins are the number of readers whose lease
   it is (cardinalities, for any finite set of readers);
2. `DrawInv`: the staged slot is neither displayed nor pinned nor findable by a
   revision; a revision names one content; what a reader saw still carries its
   revision unchanged;
3. `HostInv`: what is staged comes from the upload being sent; the displayed
   batch is a whole report under the id last acknowledged;
4. `AttentionInv`: the attention is at its index; the last event was raised at
   no later revision than the current one. `EventsAreNew` then says which event can
   have the revision already shown: a batch sent again unchanged keeps its revision, and
   an alert listed after the one it replaces is compared with that one and announced.
   The proof shows that there is no other.

`ToldIsShown` has the same exception as the code: under one id the city may be that of another
report the host began under it (finding 2).

Assumptions are those of the modules (`ASSUME`, evaluated by TLC in the runs):
bounds are naturals, sets of readers are finite, a report has at most
`WEATHER_FEED_MAX_ALERTS` alerts and has alerts exactly when it is ACTIVE
(`s_complete` checks this).

**`ForecastSessionProofs`** (`TypeCorrect`, `EveryBatchHasATime`, `ConfirmedStays`).
Neither property is inductive: whether a batch may be saved depends on what the
storage's transaction, the protocol and the format know of each other. `Linked`
ties the protocol's state to the transaction, `Begun` says who has used the permit, `Stored`
what flash, RAM and the transaction hold after each way a save can go. A collected
batch has no more days than announced (`FiniteSetTheorems` for the number of dates).

**`LowPowerTimeProofs`** (`NoTimeLost`, `WakesByTheDeadline`, `DueTickIsPended`,
`CompareIsAhead`). `CyclesExact` and `AdvanceExact` say that the two conversions
are divisions which keep their residue and fit in 32 bits, for every count of
the LPTIM and every phase; `NoTimeLost` adds them up over any sequence of stops. The frequencies
are those of the code, not parameters, since with them every step is linear. TLC
could not run these properties: the products need 64 bits. The theorem holds
up to a halt (finding 5), from which nothing is counted.

**`SleepProofs`** (`TypeCorrect`, `WindowsHold`, `StopsOnlyAtRest`, `EventsAreHeld`).
`WindowInv` relates each window of `power.c` to its true age: an open window has that
age, a window whose time is not over is open, and one found over stays closed, so a wrap of the
tick cannot open it again. Nothing is assumed of how often anybody looks;
`WindowsHold` is silent about a window nobody looked at between its end and the wrap. That
is the only escape, and section 5 says how it comes about. `ButtonsInv`, `AccelInv` and
`DebugInv` say for each owner in which places of its loop its veto may be down and
what it then cannot have pending; that an owner with its veto down and no
interrupt latched is at rest makes the checks behind the mask (`StopInv`) enough.
`EventInv` says from which place of its loop on, that of the last test before the wait, each owner has an
interrupt or a notification to come for what it has not seen; with `PinFalls`,
which goes through the steps that clear the sensor's pin, it gives `EventsAreHeld`.

**`FileTransferProofs`** (`TypeCorrect`, `ClosedOutside`, `OnceOnly`, `OwnAnswer`,
`CommitsAreAtomic`), for any number of invocations and power cuts and any
length of the line. Layers, each proved with those before it:
1. `Local`: `file_transfer.c` knows whose request the mailbox holds, the upload
   of the store belongs to the session, the cache holds the request before the
   next one;
2. `OrderInv`, `BoundInv`: the line keeps the order of the invocations, and a
   session that left any trace behind its HELLO can never be bound again, whatever
   old HELLO or FS TRANSFER is still under way;
3. `SequenceInv`: the host is stop-and-wait, so what is on the line of the session
   is the request in turn or the one answered last;
4. `ExecutedInv`: whatever was executed or told is behind the session's number, but
   for a result that `debugTask` has not taken;
5. `SentInv`, `OwnUpload`, `AskInv`, `PendInv`, `AppliedInv`: the only request that can still
   change the file (`Pend`) is the one the host asks about or gave up on, it
   has not been applied yet, and a COMMIT of it finds the upload that was asked for.
With these every step of the four actors is a step of `AtomicFile` or a stutter,
under `file <- disk.file`, what a restart would find. A REMOVE typed at the console has
no number of the protocol: it is a step of its own in `AtomicFile`, and `TypedInv`
shows that no request of the host is pending when the code carries it out.

Only model-checked: all liveness (`FileRequestsAnswered`, `ForecastsAnswered`,
`FormatsAnswered`, `UploadFinishes`, `SleepsAgain`, `AbandonedSessionEnds`,
`AllAnswered`), since fairness and ENABLED are outside the prover. Every other
property of a passing run, invariant, action property or refinement, is a theorem.

## 5. Findings

Each is a run that ends in a counterexample to a sentence of the documentation.

1. **The lock can be held for ever** (`storage_lock`, `storage.c:879`).
   `storageTask` completes the CANCEL of a cleanup and publishes the snapshot
   without the upload in two critical sections. If `debugTask` takes the result between
   them, the single release that follows is refused, ignored, and nothing
   tries again: file commands and forecasts are BUSY until a restart.
2. **OK for a batch that is not published** (`feed_conflict`, `weather_feed.c:675`).
   A batch is told from the last one by its id, its record count and its CRC, and the
   CRC leaves BEGIN out. A host that restarts after a lost answer and uses its id
   again for another city, with the same data lines, is told OK; the other city stays
   on display. `HostTold`, which holds, is about the data lines.
3. **An alert is never announced** (`feed_in_force`, `weather_feed.c:552`). A
   pending alert that takes effect while the clock is not trusted is in force
   in the next batch; there it is skipped as unchanged and no longer pending.
4. **OK COMMIT for a batch the flash does not hold** (`session_stale`,
   `forecast_protocol.c:300`). A COMMIT that is repeated, and one of the saved batch sent
   again, is answered from RAM. RAM keeps the old batch when FS FORMAT fails
   after it erased, and when a save fails although its rename took effect; the
   batch confirmed is then gone after a reset. The documentation says OK means that
   the batch is saved, and advises STATUS after a doubtful save, which also reports RAM.
   `ConfirmedIsKept`, which holds, leaves out confirmations given while such a
   failure is in doubt.
5. **The device halts after one stop in 80000** (`low_power`,
   `stm32_low_power.c:310`). SysTick is restarted with the rest of the running
   tick less one. When the stop ends in the last cycle of a tick this is zero,
   which stops SysTick. The port then waits for it in vain and calls `s_fatal`, meant for
   hardware that failed: interrupts stay masked until a reset.

Four more, met on the way and not among the runs:

* **A forecast is not restored after a remount** (`storage.c:602`). After a mount that a
  scan starts, the loop does not publish the new state, as boot does, so the restore
  in the same pass sees the old one and ends with NOT_READY; nothing tries again,
  although `docs/forecast_protocol.md:74` says that the file is loaded promptly after a mount. TLC
  shows it when `RestoredAfterMount` takes the place of the invariant in
  `MCStorage_lock.cfg`, with `PeerModes = {FALSE, TRUE}`.
* **An alert is announced twice** (`weather_feed.c:541`). A poll checked before an alert's
  effective time and committed after it marks the alert as pending again, and the next expiry
  announces it again, although `docs/weather_feed_protocol.md:82` says that polling
  the same content does not. TLC shows it when `PROPERTY AnnouncedOnce` takes the
  place of the invariant in `MCWeatherFeed_force.cfg`.
* **A batch that changes nothing raises an event** (`weather_feed.c:547`). In a batch that lists
  an alert after the one it replaces, the first match compares it with the
  replaced one, so each poll finds it changed. The poll keeps its revision, so the event
  has one that `displayTask` has seen and may drop: the new alert is then never shown as
  an event. `AnnouncementIsNew` names this case; TLC shows it when `PROPERTY PollIsQuiet`
  joins `MCWeatherFeed_feed.cfg`.
* **A window opens again** (`stm32_low_power.c:229`). HOLD entered inside the boot or
  the motion window and kept past the wrap of the tick (49 days), without a POWER STATUS, leaves the
  window unlatched; back in AUTO it vetoes sleep once more for the rest of its length. `WindowsAreReal`
  leaves out exactly this (`Missed`).

## 6. Not modelled, and plan

Abstracted in the modules above: file contents, paths, CRCs, the field parsers
and the rejection of malformed lines, the glyph table, `s_commit_count`, the
wrap of the 32-bit `s_revision`, busy polling of the flash. Not to be modelled:
drawing and views (no shared state, golden images in `tests/`), the panel driver
(one task, a command list), telemetry, the single-line WEATHER command (one
record copied in one critical section), generated and vendored code.

Partly modelled: the panel's page selection, attention and retries (`display.c`)
only as the readers of `WeatherFeed`; gestures and long presses, and the
register traffic of the sensor, not at all; of the UART only the receiver. Faults
and their categories (`clock_faults.c`) are counted for display and decide
nothing else. The restoration of the PLL is a sequence of register waits that ends in
success or in a halt.

In this order:
1. done: `Storage`, `ClockConfig`, `WeatherFeed`, `FileStore`, `FileTransfer`,
   `Power`, `Sleep`, `LowPowerTime`, `TimeService`, `ForecastSession`.
2. done: theorems for the safety properties of those modules (section 4).
3. `DisplayPages`: attention as `displayTask` consumes it, the page command that
   may turn the page between an event and its drawing, the bounded retry.
4. `DebugUart`: a transmission that times out and completes afterwards, the
   rest of a line discarded after an overflow.

## 7. Running

    tlc -config MCStorage_safety.cfg MCStorage
    tlc -config ClockConfig.cfg ClockConfig
    tlc -config MCWeatherFeed_feed.cfg MCWeatherFeed
    tlc -config MCFileTransfer.cfg MCFileTransfer
    tlc -config MCSleep.cfg MCSleep
    tlc -config ForecastSession.cfg ForecastSession
    tlapm StorageProofs.tla

The longest run, `transfer`, takes about three minutes on two cores, the longest
proof, `FileTransferProofs`, about five.
