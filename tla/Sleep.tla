---------------------------------- MODULE Sleep ----------------------------------
(***************************************************************************)
(* Tickless idle into STOP2: vPortSuppressTicksAndSleep of                 *)
(* platform/stm32_low_power.c, against the owners whose vetoes, latches    *)
(* and notifications it has to respect: buttonsTask with its filter,       *)
(* accelTask with the motion interrupt, and debugTask with the receive     *)
(* side of the UART, which also switches the power mode.                   *)
(*                                                                         *)
(* buttonsTask and accelTask have the same priority and interleave freely; *)
(* debugTask, below them, runs while both wait, and the idle task while    *)
(* all do.  The scheduler is suspended from the entry of the idle port on, *)
(* interrupts are masked from its checks to the end of STOP2; the hardware *)
(* never waits.  The display, clock and storage owners follow the same pattern;  *)
(* the veto of the storage is the subject of Storage.                      *)
(***************************************************************************)
EXTENDS Power, Sequences, FiniteSets

CONSTANTS RingSize,       \* DEBUG_UART_RING_SIZE
          Scenarios       \* bound: how many events of each kind one behaviour has

Kinds == {"press", "movement", "byte", "failure"}

ASSUME SleepAssumption == RingSize \in Nat \ {0} /\ Scenarios \subseteq [Kinds -> Nat]

VARIABLES
  power,     \* s_status and the windows of power.c
  cpu,       \* run, where the idle task is in the port, or halted for good
  key,       \* one button: its pin and its EXTI pending bit
  buttons,   \* buttonsTask: point, notification, filter and s_pending
  sensor,    \* the ADXL345: activity interrupt enabled, pin, EXTI pending bit
  accel,     \* accelTask: point, notification, locals, s_motion_pending and _enabled
  uart,      \* the receive ring, the data register and the flags of the driver
  debug,     \* debugTask: point, notification, s_line_active, the local busy
  clock,     \* history: the true age of each window
  events     \* external events so far, of each kind

vars == <<power, cpu, key, buttons, sensor, accel, uart, debug, clock, events>>

Bytes == {"part", "HOLD", "AUTO", "STATUS"}   \* the start of a line, and the end of a command
None == "none"

Key == [raw : BOOLEAN, edge : BOOLEAN]
ButtonsType == [pc : {"top", "sample", "decide", "release", "delay", "wait"}, notified : BOOLEAN,
                candidate : BOOLEAN, stable : BOOLEAN, pending : BOOLEAN]
Sensor == [armed : BOOLEAN, high : BOOLEAN, edge : BOOLEAN]
AccelType == [pc : {"sampling", "failing", "enter", "loop", "init", "read", "look", "arm", "wait", "waiting",
                    "pause", "pausing"},
              notified : BOOLEAN, initialized : BOOLEAN, moved : BOOLEAN,
              pending : BOOLEAN, enabled : BOOLEAN]
Uart == [ring : Seq(Bytes), data : Bytes \cup {None},
         error : BOOLEAN, restart : BOOLEAN, suspended : BOOLEAN]
DebugType == [pc : {"top", "read", "tell", "decide", "set", "wait"}, notified : BOOLEAN,
              line : BOOLEAN, busy : BOOLEAN]

(* The age of a window in ticks that were really counted; a window nobody looked *)
(* at from its end until the counter came round again; and a window found over.  *)
Missed == Ticks
Over == Ticks + 1
Clock == [boot : 0..Over, motion : 0..Over]

TypeOK ==
  /\ power \in Power
  /\ cpu \in {"run", "entry", "masked", "stopped", "halted"}
  /\ key \in Key /\ buttons \in ButtonsType
  /\ sensor \in Sensor /\ accel \in AccelType
  /\ uart \in Uart /\ Len(uart.ring) <= RingSize
  /\ debug \in DebugType
  /\ clock \in Clock /\ events \in [Kinds -> Nat]

(* s_error: the fault and the cleared ready flag stay until a reset.  One fault *)
(* stands for POWER_FAULT_CLOCK and POWER_FAULT_TIMER.                          *)
Locked(p) == SetFault(p, "TIMER", TRUE)
Ready == "TIMER" \notin power.faults

(* stm32_low_power_init may have failed. *)
Init ==
  /\ \E locked \in BOOLEAN :
       /\ power = IF locked THEN Locked(PowerInit) ELSE PowerInit
       /\ events = [kind \in Kinds |-> IF locked /\ kind = "failure" THEN 1 ELSE 0]
  /\ cpu = "run"
  /\ key = [raw |-> FALSE, edge |-> FALSE]
  /\ buttons = [pc |-> "top", notified |-> FALSE, candidate |-> FALSE, stable |-> FALSE,
                pending |-> FALSE]
  /\ sensor = [armed |-> FALSE, high |-> FALSE, edge |-> FALSE]
  /\ accel = [pc |-> "enter", notified |-> FALSE, initialized |-> FALSE, moved |-> FALSE,
              pending |-> FALSE, enabled |-> FALSE]
  /\ uart = [ring |-> << >>, data |-> None, error |-> FALSE, restart |-> FALSE,
             suspended |-> FALSE]
  /\ debug = [pc |-> "top", notified |-> FALSE, line |-> FALSE, busy |-> FALSE]
  /\ clock = [boot |-> 0, motion |-> Over]

Running == cpu = "run"             \* tasks are scheduled
Unmasked == cpu \in {"run", "entry"}

Event(kind) ==
  /\ events' = [events EXCEPT ![kind] = @ + 1]
  /\ \E scenario \in Scenarios : \A k \in Kinds : events'[k] <= scenario[k]
Failure == Event("failure")
FailureIf(happens) == IF happens THEN Failure ELSE UNCHANGED events

(* A task that waits, for a time or for a notification. *)
ButtonsWait == \/ buttons.pc = "delay"
               \/ buttons.pc = "wait" /\ ~buttons.notified
AccelWaits == \/ accel.pc \in {"sampling", "failing"}
              \/ accel.pc \in {"waiting", "pausing"} /\ ~accel.notified

-----------------------------------------------------------------------------
(* The hardware and its interrupts *)

Press ==
  /\ Event("press") /\ ~key.raw
  /\ key' = [raw |-> TRUE, edge |-> TRUE]
  /\ UNCHANGED <<power, cpu, buttons, sensor, accel, uart, debug, clock>>

LetGo ==
  /\ key.raw /\ key' = [key EXCEPT !.raw = FALSE]
  /\ UNCHANGED <<power, cpu, buttons, sensor, accel, uart, debug, clock, events>>

(* Activity raises the pin until INT_SOURCE is read.  The edge sets the *)
(* pending bit of the EXTI line whether the line is masked or not.      *)
Activity ==
  /\ Event("movement") /\ sensor.armed /\ ~sensor.high
  /\ sensor' = [sensor EXCEPT !.high = TRUE, !.edge = TRUE]
  /\ UNCHANGED <<power, cpu, key, buttons, accel, uart, debug, clock>>

(* A byte reaches a UART that is switched off, or the data register. *)
Byte ==
  /\ Event("byte") /\ uart.data = None
  /\ \E byte \in Bytes :
       uart' = IF uart.suspended THEN uart ELSE [uart EXCEPT !.data = byte]
  /\ UNCHANGED <<power, cpu, key, buttons, sensor, accel, debug, clock>>

(* Mutant of ButtonInterrupt: the task is left waiting. *)
ButtonInterruptSilent ==
  /\ Unmasked /\ key.edge
  /\ key' = [key EXCEPT !.edge = FALSE]
  /\ buttons' = [buttons EXCEPT !.pending = TRUE]
  /\ UNCHANGED <<power, cpu, sensor, accel, uart, debug, clock, events>>

(* stm32_buttons_exti_callback *)
ButtonInterrupt ==
  /\ Unmasked /\ key.edge
  /\ key' = [key EXCEPT !.edge = FALSE]
  /\ buttons' = [buttons EXCEPT !.pending = TRUE, !.notified = TRUE]
  /\ UNCHANGED <<power, cpu, sensor, accel, uart, debug, clock, events>>

(* stm32_adxl345_motion_exti_callback: also run for a masked line when the *)
(* vector it shares with another one is taken.                             *)
MotionInterrupt ==
  /\ Unmasked /\ sensor.edge
  /\ sensor' = [sensor EXCEPT !.edge = FALSE]
  /\ accel' = [accel EXCEPT !.pending = TRUE, !.enabled = FALSE,
                            !.notified = @ \/ accel.enabled]
  /\ UNCHANGED <<power, cpu, key, buttons, uart, debug, clock, events>>

(* Mutant of ReceiveInterrupt: the full ring is noticed one byte too late. *)
ReceivePastEnd ==
  /\ Unmasked /\ uart.data # None
  /\ uart' = IF Len(uart.ring) > RingSize
             THEN [uart EXCEPT !.data = None, !.ring = << >>, !.error = TRUE]
             ELSE [uart EXCEPT !.data = None, !.ring = Append(@, uart.data)]
  /\ debug' = [debug EXCEPT !.notified = TRUE]
  /\ UNCHANGED <<power, cpu, key, buttons, sensor, accel, clock, events>>

(* HAL_UART_RxCpltCallback: a full ring is emptied and reported. *)
ReceiveInterrupt ==
  /\ Unmasked /\ uart.data # None
  /\ uart' = IF Len(uart.ring) >= RingSize
             THEN [uart EXCEPT !.data = None, !.ring = << >>, !.error = TRUE]
             ELSE [uart EXCEPT !.data = None, !.ring = Append(@, uart.data)]
  /\ debug' = [debug EXCEPT !.notified = TRUE]
  /\ UNCHANGED <<power, cpu, key, buttons, sensor, accel, clock, events>>

(* HAL_UART_ErrorCallback: reception stops until debugTask recovers it. *)
ErrorInterrupt ==
  /\ Unmasked /\ Failure /\ ~uart.suspended
  /\ uart' = [uart EXCEPT !.data = None, !.ring = << >>, !.error = TRUE, !.restart = TRUE]
  /\ debug' = [debug EXCEPT !.notified = TRUE]
  /\ UNCHANGED <<power, cpu, key, buttons, sensor, accel, clock>>

-----------------------------------------------------------------------------
(* buttonsTask *)

ButtonsOnly == UNCHANGED <<cpu, sensor, accel, uart, debug, clock, events>>

(* Mutant of ButtonsTake: the task wakes without its veto. *)
ButtonsTakeOpen ==
  /\ Running /\ buttons.pc = "top"
  /\ buttons' = [buttons EXCEPT !.pc = "sample", !.pending = FALSE]
  /\ UNCHANGED <<key, power>> /\ ButtonsOnly

ButtonsTake ==
  /\ Running /\ buttons.pc = "top"
  /\ power' = SetBlocker(power, {"INPUT"}, TRUE)
  /\ buttons' = [buttons EXCEPT !.pc = "sample", !.pending = FALSE]
  /\ UNCHANGED key /\ ButtonsOnly

(* button_filter_update and s_dispatch.  late: the pin has kept its level for *)
(* BUTTON_FILTER_DEBOUNCE_MS, which takes more than one sample.               *)
ButtonsSample(late) ==
  /\ Running /\ buttons.pc = "sample"
  /\ late => buttons.candidate = key.raw /\ buttons.stable # key.raw
  /\ LET stable == IF late THEN key.raw ELSE buttons.stable
     IN  buttons' = [buttons EXCEPT !.candidate = key.raw, !.stable = stable,
                                    !.pc = IF key.raw \/ stable THEN "delay" ELSE "decide"]
  /\ UNCHANGED <<power, key>> /\ ButtonsOnly

(* stm32_buttons_sleep_ready *)
ButtonsReady == ~buttons.pending /\ ~key.edge /\ ~key.raw

ButtonsDecide ==
  /\ Running /\ buttons.pc = "decide"
  /\ buttons' = [buttons EXCEPT !.pc = IF ButtonsReady THEN "release" ELSE "delay"]
  /\ UNCHANGED <<power, key>> /\ ButtonsOnly

ButtonsRelease ==
  /\ Running /\ buttons.pc = "release"
  /\ power' = SetBlocker(power, {"INPUT"}, FALSE)
  /\ buttons' = [buttons EXCEPT !.pc = "wait"]
  /\ UNCHANGED key /\ ButtonsOnly

(* ulTaskNotifyTake *)
ButtonsNotified ==
  /\ Running /\ buttons.pc = "wait" /\ buttons.notified
  /\ buttons' = [buttons EXCEPT !.pc = "top", !.notified = FALSE]
  /\ UNCHANGED <<power, key>> /\ ButtonsOnly

ButtonsDelayed ==
  /\ Running /\ buttons.pc = "delay"
  /\ buttons' = [buttons EXCEPT !.pc = "top"]
  /\ UNCHANGED <<power, key>> /\ ButtonsOnly

Buttons ==
  \/ ButtonsTake \/ (\E late \in BOOLEAN : ButtonsSample(late))
  \/ ButtonsDecide \/ ButtonsRelease \/ ButtonsNotified \/ ButtonsDelayed

-----------------------------------------------------------------------------
(* accelTask *)

AccelOnly == UNCHANGED <<cpu, key, buttons, uart, debug>>

Accel(pc) == Running /\ accel.pc = pc

Hold == power.mode = "HOLD"

(* power_motion_event on top of the other changes to the record *)
Moved(p, moved) ==
  /\ power' = IF moved THEN MotionEvent(p) ELSE p
  /\ clock' = IF moved THEN [clock EXCEPT !.motion = 0] ELSE clock

(* s_motion_fault *)
MotionFault(p) == SetFault(SetBlocker(p, {"MOTION"}, TRUE), "MOTION", TRUE)

(* One turn of s_run: in HOLD the sensor is sampled with its interrupts off.  The *)
(* task then sleeps for ACCEL_POLL_MS, or for ACCEL_SAMPLE_MS when that failed.   *)
AccelSample ==
  /\ Accel("sampling") \/ Accel("failing")
  /\ LET p == SetBlocker(power, {"ACCEL"}, TRUE)
     IN  IF Hold
         THEN /\ \E moved \in BOOLEAN : Moved(p, moved)
              /\ sensor' \in {sensor, [sensor EXCEPT !.armed = FALSE, !.high = FALSE]}
              /\ accel' \in {[accel EXCEPT !.pc = pc] : pc \in {"sampling", "failing"}}
         ELSE /\ Moved(p, FALSE)
              /\ accel' = [accel EXCEPT !.pc = "enter"]
              /\ UNCHANGED sensor
  /\ AccelOnly /\ UNCHANGED events

(* s_run_motion *)
AccelEnter ==
  /\ Accel("enter")
  /\ power' = SetBlocker(power, {"ACCEL", "MOTION"}, TRUE)
  /\ accel' = [accel EXCEPT !.pc = "loop", !.enabled = FALSE, !.initialized = FALSE]
  /\ AccelOnly /\ UNCHANGED <<sensor, clock, events>>

AccelLeave ==
  /\ Accel("loop") /\ Hold
  /\ power' = SetBlocker(power, {"MOTION"}, TRUE)
  /\ accel' = [accel EXCEPT !.pc = "sampling", !.enabled = FALSE]
  /\ AccelOnly /\ UNCHANGED <<sensor, clock, events>>

(* Mutant of AccelTake: the latch of an earlier edge is kept. *)
AccelTakeKeeping ==
  /\ Accel("loop") /\ ~Hold
  /\ power' = IF accel.initialized THEN SetBlocker(power, {"MOTION"}, TRUE) ELSE power
  /\ accel' = [accel EXCEPT !.pc = IF accel.initialized THEN "read" ELSE "init", !.enabled = FALSE]
  /\ sensor' = [sensor EXCEPT !.edge = FALSE]
  /\ AccelOnly /\ UNCHANGED <<clock, events>>

(* stm32_adxl345_motion_take_pending, before the sensor is asked *)
AccelTake ==
  /\ Accel("loop") /\ ~Hold
  /\ power' = IF accel.initialized THEN SetBlocker(power, {"MOTION"}, TRUE) ELSE power
  /\ accel' = [accel EXCEPT !.pc = IF accel.initialized THEN "read" ELSE "init",
                            !.enabled = FALSE, !.pending = FALSE]
  /\ sensor' = [sensor EXCEPT !.edge = FALSE]
  /\ AccelOnly /\ UNCHANGED <<clock, events>>

(* adxl345_init and adxl345_arm_activity, which reads the source on its way. *)
AccelInit ==
  /\ Accel("init")
  /\ \E moved, ok \in BOOLEAN :
       /\ ok /\ sensor.high => moved
       /\ Moved(IF ok THEN power ELSE MotionFault(power), moved)
       /\ accel' = [accel EXCEPT !.pc = "pause", !.initialized = ok, !.enabled = FALSE]
       /\ sensor' \in IF ok THEN {[sensor EXCEPT !.armed = TRUE, !.high = FALSE]}
                      ELSE {sensor, [sensor EXCEPT !.armed = FALSE, !.high = FALSE]}
       /\ IF ok THEN UNCHANGED events ELSE Failure
  /\ AccelOnly

(* adxl345_read_interrupt and, now and then, adxl345_check_activity.  A read *)
(* that fails may have cleared the source.                                   *)
AccelRead ==
  /\ Accel("read")
  /\ \/ /\ Moved(power, sensor.high)
        /\ accel' = [accel EXCEPT !.pc = "look", !.moved = sensor.high]
        /\ sensor' = [sensor EXCEPT !.high = FALSE]
        /\ UNCHANGED events
     \/ /\ Failure
        /\ \E moved, high \in {FALSE, sensor.high} :
             /\ ~(moved /\ high)
             /\ Moved(MotionFault(power), moved)
             /\ sensor' = [sensor EXCEPT !.high = high]
        /\ accel' = [accel EXCEPT !.pc = "pause", !.initialized = FALSE, !.enabled = FALSE]
  /\ AccelOnly

(* stm32_adxl345_motion_high: a pin high for too long is a fault, and while *)
(* there is movement the interrupt stays off.                               *)
AccelLook ==
  /\ Accel("look")
  /\ \/ /\ sensor.high /\ Failure
        /\ power' = MotionFault(power)
        /\ accel' = [accel EXCEPT !.pc = "pause", !.initialized = FALSE, !.enabled = FALSE,
                                  !.moved = FALSE]
     \/ /\ accel' = [accel EXCEPT !.pc = IF accel.moved \/ sensor.high THEN "pause" ELSE "arm",
                                  !.moved = FALSE]
        /\ UNCHANGED <<power, events>>
  /\ AccelOnly /\ UNCHANGED <<sensor, clock>>

ArmOk == ~sensor.high /\ ~accel.pending /\ ~sensor.edge

(* stm32_adxl345_motion_arm: only a rising edge still to come is an event. *)
AccelArm ==
  /\ Accel("arm")
  /\ accel' = IF ArmOk THEN [accel EXCEPT !.pc = "wait", !.enabled = TRUE]
              ELSE [accel EXCEPT !.pc = "pause"]
  /\ power' = IF ArmOk THEN SetFault(SetBlocker(power, {"MOTION"}, FALSE), "MOTION", FALSE)
              ELSE power
  /\ AccelOnly /\ UNCHANGED <<sensor, clock, events>>

(* s_motion_wait: gives the ACCEL veto back unless the mode is HOLD by now. *)
AccelWait ==
  /\ Accel("wait")
  /\ power' = SetBlocker(power, {"ACCEL"}, Hold)
  /\ accel' = [accel EXCEPT !.pc = IF Hold THEN "loop" ELSE "waiting"]
  /\ AccelOnly /\ UNCHANGED <<sensor, clock, events>>

AccelWake ==
  /\ Accel("waiting")
  /\ power' = SetBlocker(power, {"ACCEL"}, TRUE)
  /\ accel' = [accel EXCEPT !.pc = "loop", !.notified = FALSE]
  /\ AccelOnly /\ UNCHANGED <<sensor, clock, events>>

(* s_motion_pause: the MOTION veto stays, a notification does not end it. *)
AccelPause ==
  /\ Accel("pause")
  /\ power' = IF Hold THEN power ELSE SetBlocker(power, {"ACCEL"}, FALSE)
  /\ accel' = [accel EXCEPT !.pc = IF Hold THEN "loop" ELSE "pausing"]
  /\ AccelOnly /\ UNCHANGED <<sensor, clock, events>>

AccelResume(elapsed) ==
  /\ Accel("pausing") /\ (accel.notified \/ elapsed)
  /\ power' = SetBlocker(power, {"ACCEL"}, TRUE)
  /\ accel' = [accel EXCEPT !.pc = IF elapsed THEN "loop" ELSE "pause", !.notified = FALSE]
  /\ AccelOnly /\ UNCHANGED <<sensor, clock, events>>

AccelTask ==
  \/ AccelSample \/ AccelEnter \/ AccelLeave \/ AccelTake \/ AccelInit \/ AccelRead
  \/ AccelLook \/ AccelArm \/ AccelWait \/ AccelWake \/ AccelPause
  \/ \E elapsed \in BOOLEAN : AccelResume(elapsed)

-----------------------------------------------------------------------------
(* debugTask *)

DebugOnly == UNCHANGED <<cpu, key, buttons, sensor>>

Debug(pc) == Running /\ ButtonsWait /\ AccelWaits /\ debug.pc = pc

(* The veto, stm32_debug_uart_rx_recover, and the time-out of a line. *)
DebugTop(expired) ==
  /\ Debug("top")
  /\ power' = SetBlocker(power, {"DEBUG"}, TRUE)
  /\ debug' = [debug EXCEPT !.pc = "read", !.line = @ /\ ~expired]
  /\ \E failed \in BOOLEAN :
       /\ uart' = [uart EXCEPT !.restart = @ /\ failed]
       /\ FailureIf(failed)
  /\ DebugOnly /\ UNCHANGED <<accel, clock>>

(* A look at the windows: s_blockers closes what is over. *)
Found(age, length) == IF length <= age /\ age < Ticks THEN Over ELSE age
LookNow ==
  /\ power' = Look(power)
  /\ clock' = [boot |-> Found(clock.boot, BootWindow),
               motion |-> Found(clock.motion, MotionWindow)]

(* One turn of the receive loop; POWER HOLD and POWER AUTO change the mode, *)
(* POWER STATUS looks at the windows.                                       *)
DebugRead ==
  /\ Debug("read")
  /\ uart' = [uart EXCEPT !.error = FALSE, !.ring = IF @ = << >> THEN @ ELSE Tail(@)]
  /\ IF uart.ring = << >>
     THEN /\ debug' = [debug EXCEPT !.pc = "decide", !.line = @ /\ ~uart.error]
          /\ UNCHANGED <<power, clock>>
     ELSE LET byte == Head(uart.ring)
          IN  /\ debug' = [debug EXCEPT !.line = byte = "part",
                                        !.pc = IF byte \in {"HOLD", "AUTO"} THEN "tell" ELSE @]
              /\ CASE byte = "part"   -> UNCHANGED <<power, clock>>
                   [] byte = "STATUS" -> LookNow
                   [] OTHER           -> power' = SetMode(power, byte) /\ UNCHANGED clock
  /\ DebugOnly /\ UNCHANGED <<accel, events>>

(* accel_power_mode_changed *)
DebugTell ==
  /\ Debug("tell")
  /\ debug' = [debug EXCEPT !.pc = "read"]
  /\ accel' = [accel EXCEPT !.notified = TRUE]
  /\ DebugOnly /\ UNCHANGED <<power, uart, clock, events>>

(* stm32_debug_uart_sleep_ready *)
UartReady == /\ uart.ring = << >> /\ uart.data = None
             /\ ~uart.error /\ ~uart.restart /\ ~uart.suspended

DebugDecide ==
  /\ Debug("decide")
  /\ debug' = [debug EXCEPT !.pc = "set", !.busy = debug.line \/ ~UartReady]
  /\ DebugOnly /\ UNCHANGED <<power, accel, uart, clock, events>>

DebugSet ==
  /\ Debug("set")
  /\ power' = SetBlocker(power, {"DEBUG"}, debug.busy)
  /\ debug' = [debug EXCEPT !.pc = "wait", !.busy = FALSE]
  /\ DebugOnly /\ UNCHANGED <<accel, uart, clock, events>>

(* Notified, or after at most a second. *)
DebugWake ==
  /\ Debug("wait")
  /\ debug' = [debug EXCEPT !.pc = "top", !.notified = FALSE]
  /\ DebugOnly /\ UNCHANGED <<power, accel, uart, clock, events>>

DebugTask ==
  \/ (\E expired \in BOOLEAN : DebugTop(expired))
  \/ DebugRead \/ DebugTell \/ DebugDecide \/ DebugSet \/ DebugWake

-----------------------------------------------------------------------------
(* The idle task: vPortSuppressTicksAndSleep *)

IdleOnly == UNCHANGED <<key, buttons, sensor, accel, debug>>

(* No task can run before an interrupt, and eTaskConfirmSleepModeStatus finds *)
(* none made ready by one.                                                    *)
AllBlocked == ButtonsWait /\ AccelWaits /\ debug.pc = "wait" /\ ~debug.notified

(* s_motion_clear *)
MotionClear == ~sensor.high /\ ~sensor.edge /\ accel.enabled

(* A tick.  Only the looks and a movement read the count, so the ticks that pass *)
(* while a task works are counted where all of them wait.                        *)
Counted(age) == IF age < Ticks THEN age + 1 ELSE age
Elapse ==
  /\ Running /\ AllBlocked
  /\ power' = Later(power, 1)
  /\ clock' = [boot |-> Counted(clock.boot), motion |-> Counted(clock.motion)]
  /\ IdleOnly /\ UNCHANGED <<cpu, uart, events>>

(* The first look, with interrupts and ticks still coming.  The port does not get *)
(* that far in HOLD, where accelTask is back too soon, nor after s_error.         *)
IdleLook ==
  /\ Running /\ AllBlocked
  /\ accel.pc # "sampling" /\ Ready
  /\ LookNow
  /\ cpu' = IF CanSleep(power) THEN "entry" ELSE "run"
  /\ IdleOnly /\ UNCHANGED <<uart, events>>

Quiet == AllBlocked /\ CanSleep(power) /\ MotionClear /\ ButtonsReady

(* Interrupts off, all checks, those of the clock registers included, and *)
(* stm32_debug_uart_suspend_rx.                                           *)
IdleMask ==
  /\ cpu = "entry"
  /\ \/ ~(Quiet /\ UartReady) /\ cpu' = "run" /\ UNCHANGED <<power, uart, events>>
     \/ /\ Quiet /\ UartReady
        /\ \/ /\ cpu' = "masked" /\ uart' = [uart EXCEPT !.suspended = TRUE]
              /\ UNCHANGED <<power, events>>
           \/ /\ cpu' = "run" /\ uart' = [uart EXCEPT !.restart = TRUE]
              /\ Failure /\ UNCHANGED power
           \/ /\ cpu' = "run" /\ power' = Locked(power)
              /\ Failure /\ UNCHANGED uart
  /\ IdleOnly /\ UNCHANGED clock

(* stm32_debug_uart_resume_rx; what the UART held is flushed. *)
Resume(failed) ==
  /\ cpu' = "run"
  /\ uart' = [uart EXCEPT !.suspended = FALSE, !.data = None, !.restart = failed]

(* The checks again after the compare register is set, and the WFI. *)
IdleStop ==
  /\ cpu = "masked" /\ Quiet
  /\ cpu' = "stopped"
  /\ IdleOnly /\ UNCHANGED <<power, uart, clock, events>>

(* Something came up or the compare value is too near: the next idle period tries *)
(* again.  After a counter that does not settle or a compare value that is not    *)
(* taken none does.                                                               *)
IdleGiveUp ==
  /\ cpu = "masked"
  /\ \E failed, fault \in BOOLEAN :
       /\ Resume(failed) /\ FailureIf(failed \/ fault)
       /\ power' = IF fault THEN Locked(power) ELSE power
  /\ IdleOnly /\ UNCHANGED clock

(* The LPTIM or a pending interrupt ends STOP2. *)
IdleWake ==
  /\ cpu = "stopped"
  /\ \E failed \in BOOLEAN : Resume(failed) /\ FailureIf(failed)
  /\ IdleOnly /\ UNCHANGED <<power, clock>>

(* s_fatal: a clock or a counter that does not come back leaves the interrupts off. *)
IdleHalt ==
  /\ cpu \in {"masked", "stopped"} /\ Failure
  /\ cpu' = "halted" /\ power' = Locked(power)
  /\ IdleOnly /\ UNCHANGED <<uart, clock>>

HaltLoop == cpu = "halted" /\ UNCHANGED vars

Idle ==
  Elapse \/ IdleLook \/ IdleMask \/ IdleStop \/ IdleGiveUp \/ IdleWake \/ IdleHalt \/ HaltLoop

-----------------------------------------------------------------------------
Hardware ==
  \/ Press \/ LetGo \/ Activity \/ Byte \/ ErrorInterrupt
  \/ ButtonInterrupt \/ MotionInterrupt \/ ReceiveInterrupt

Next == Hardware \/ Buttons \/ AccelTask \/ DebugTask \/ Idle

Spec == Init /\ [][Next]_vars

Halted == cpu = "halted"

(* Every task that can run is scheduled and every interrupt taken, a task's wait *)
(* ends, that of debugTask within a second, and an idle processor gets to STOP2   *)
(* at some attempt.  A steady button and a half-received line are timed out at    *)
(* some pass of their task.  The waits are long against the work between them, so *)
(* that now and then all tasks wait at once, a tick passes and the idle task gets *)
(* to its look.                                                                   *)
FairSpec ==
  /\ Spec
  /\ WF_vars(Buttons) /\ SF_vars(ButtonsSample(TRUE))
  /\ WF_vars(AccelTask)
  /\ WF_vars(DebugTask) /\ []<>(debug.pc # "wait" \/ Halted) /\ SF_vars(DebugTop(TRUE))
  /\ WF_vars(ButtonInterrupt \/ MotionInterrupt \/ ReceiveInterrupt)
  /\ WF_vars(IdleMask \/ IdleGiveUp \/ IdleWake)
  /\ []<>AllBlocked /\ SF_vars(Elapse) /\ SF_vars(IdleLook) /\ SF_vars(IdleStop)

-----------------------------------------------------------------------------
(* Properties *)

AtRest ==
  /\ power.mode = "AUTO" /\ power.faults = {}
  /\ buttons.pc = "wait" /\ ~buttons.candidate /\ ~buttons.stable
  /\ accel.pc = "waiting" /\ sensor.armed
  /\ debug.pc = "wait" /\ ~debug.line /\ uart.ring = << >>

Wakes ==
  /\ key.raw => key.edge
  /\ accel.enabled /\ (sensor.high => sensor.edge)

(* STOP2 is entered only over owners that are at rest, whatever their vetoes *)
(* say, and what happens during it leaves an interrupt that ends it.         *)
StopsAtRest == cpu = "stopped" => AtRest /\ Wakes

(* A window vetoes a sleep exactly as long as it lasts, however often the count *)
(* wraps; but nothing holds once nobody has looked between its end and the wrap, *)
(* which a HOLD kept for that long or a locked timer makes possible.             *)
WindowsAreReal ==
  /\ clock.boot # Missed => ("BOOT" \in Vetoes(power) <=> clock.boot < BootWindow)
  /\ clock.motion # Missed => ("WINDOW" \in Vetoes(power) <=> clock.motion < MotionWindow)

(* A press, a movement and a byte never leave their task waiting without an     *)
(* interrupt or a notification to come; and the sensor's pin falls only with a  *)
(* movement reported or a fault raised, unless HOLD has taken the sensor over.  *)
NoEventLost ==
  /\ [](key.raw /\ buttons.pc = "wait" => key.edge \/ buttons.notified)
  /\ [](sensor.high /\ accel.pc = "waiting" => sensor.edge \/ accel.notified)
  /\ []((uart.ring # << >> \/ uart.error) /\ debug.pc = "wait" => debug.notified)
  /\ [][sensor.high /\ ~sensor'.high =>
           clock'.motion = 0 \/ "MOTION" \in power'.faults \/ Hold]_vars

(* Once the mode stays AUTO and no button is held, the device sleeps again and *)
(* again, no owner keeping a veto it has no more work for; only a fault of the *)
(* timer or of the clock locks it awake.                                       *)
SleepsAgain == <>[](power.mode = "AUTO" /\ ~key.raw) => []<>(cpu = "stopped" \/ ~Ready)

===================================================================================
