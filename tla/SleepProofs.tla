------------------------------- MODULE SleepProofs -------------------------------
(***************************************************************************)
(* Proofs about Sleep, for every width of the tick counter, every length of *)
(* the windows and of the ring and any number of events: the windows end    *)
(* when they should, the device stops only over owners at rest, and no      *)
(* event is left without a wake-up.                                         *)
(***************************************************************************)
EXTENDS Sleep, TLAPS

LEMMA Constants ==
  /\ {Ticks, BootWindow, MotionWindow, RingSize} \subseteq Nat \ {0}
  /\ BootWindow < Ticks /\ MotionWindow < Ticks
  BY SleepAssumption, WindowsAssumption

-----------------------------------------------------------------------------
(* The inductive invariant *)

(* An open window has its true age until the counter has come round, and one *)
(* that is not over, or was never found over, is open.                       *)
WindowOf(w, age, length) ==
  /\ w.open /\ age < Ticks => w.age = age
  /\ age < length => w.open
  /\ age = Over => ~w.open
WindowInv ==
  /\ WindowOf(power.boot, clock.boot, BootWindow)
  /\ WindowOf(power.motion, clock.motion, MotionWindow)

(* A veto given back: its owner waits, or has been woken and not run yet.    *)
ButtonsInv ==
  /\ buttons.pc \in {"decide", "release"} => ~buttons.candidate /\ ~buttons.stable
  /\ "INPUT" \notin power.blockers =>
       buttons.pc \in {"wait", "top"} /\ ~buttons.candidate /\ ~buttons.stable

AccelInv ==
  /\ accel.pc \in {"read", "look", "arm", "wait", "waiting"} => accel.initialized
  /\ accel.initialized /\ accel.pc \notin {"sampling", "failing", "enter"} => sensor.armed
  /\ "ACCEL" \notin power.blockers => accel.pc \in {"waiting", "pausing"}
  /\ "MOTION" \notin power.blockers =>
       accel.pc \in {"wait", "waiting", "loop"} /\ accel.initialized

DebugInv ==
  /\ debug.pc = "set" /\ ~debug.busy => ~debug.line
  /\ "DEBUG" \notin power.blockers => debug.pc \in {"wait", "top"} /\ ~debug.line

(* Behind the mask nothing is received; in STOP2 the checks still hold, but  *)
(* for what has a pending interrupt.                                         *)
StopInv ==
  /\ cpu \in {"masked", "stopped"} => uart.ring = << >>
  /\ cpu = "stopped" => AllBlocked /\ CanSleep(power) /\ Wakes

(* From the decision to wait on, an event has its interrupt or notification. *)
EventInv ==
  /\ buttons.pc \in {"release", "wait"} /\ key.raw => key.edge \/ buttons.notified
  /\ accel.pc \in {"wait", "waiting"} =>
       (accel.enabled \/ accel.notified) /\ (sensor.high => sensor.edge \/ accel.notified)
  /\ debug.pc \in {"decide", "set", "wait"} /\ (uart.ring # << >> \/ uart.error) => debug.notified

-----------------------------------------------------------------------------
(* What the calls of power.c do *)

Same(p, q) == /\ q \in Power /\ q.mode = p.mode
              /\ q.boot = p.boot /\ q.motion = p.motion

LEMMA Raised ==
  ASSUME NEW p \in Power, NEW mask \in SUBSET Owners
  PROVE  /\ Same(p, SetBlocker(p, mask, TRUE))
         /\ SetBlocker(p, mask, TRUE).blockers = p.blockers \cup mask
  BY Zenon DEF Power, SetBlocker, Same

LEMMA Lowered ==
  ASSUME NEW p \in Power, NEW mask \in SUBSET Owners
  PROVE  /\ Same(p, SetBlocker(p, mask, FALSE))
         /\ SetBlocker(p, mask, FALSE).blockers = p.blockers \ mask
  BY Zenon DEF Power, SetBlocker, Same

LEMMA FaultSet ==
  ASSUME NEW p \in Power, NEW fault \in {"MOTION", "TIMER"}, NEW active \in BOOLEAN
  PROVE  /\ Same(p, SetFault(p, fault, active))
         /\ SetFault(p, fault, active).blockers = p.blockers
  BY Zenon DEF Power, SetFault, Same

LEMMA LockedFacts ==
  ASSUME NEW p \in Power
  PROVE  Same(p, Locked(p)) /\ Locked(p).blockers = p.blockers
  BY FaultSet, Zenon DEF Locked

LEMMA FaultFacts ==
  ASSUME NEW p \in Power
  PROVE  /\ Same(p, MotionFault(p))
         /\ MotionFault(p).blockers = p.blockers \cup {"MOTION"}
<1> DEFINE q == SetBlocker(p, {"MOTION"}, TRUE)
<1>1. Same(p, q) /\ q.blockers = p.blockers \cup {"MOTION"}
  BY Raised, Zenon DEF Owners
<1>2. Same(q, SetFault(q, "MOTION", TRUE)) /\ SetFault(q, "MOTION", TRUE).blockers = q.blockers
  BY <1>1, FaultSet, Zenon DEF Same
<1> QED BY <1>1, <1>2, Zenon DEF Same, MotionFault

LEMMA ArmFacts ==
  ASSUME NEW p \in Power
  PROVE  LET q == SetFault(SetBlocker(p, {"MOTION"}, FALSE), "MOTION", FALSE)
         IN  Same(p, q) /\ q.blockers = p.blockers \ {"MOTION"}
<1> DEFINE q == SetBlocker(p, {"MOTION"}, FALSE)
<1>1. Same(p, q) /\ q.blockers = p.blockers \ {"MOTION"}
  BY Lowered, Zenon DEF Owners
<1>2. Same(q, SetFault(q, "MOTION", FALSE)) /\ SetFault(q, "MOTION", FALSE).blockers = q.blockers
  BY <1>1, FaultSet, Zenon DEF Same
<1> QED BY <1>1, <1>2, Zenon DEF Same

LEMMA ModeFacts ==
  ASSUME NEW p \in Power, NEW mode \in {"AUTO", "HOLD"}
  PROVE  /\ SetMode(p, mode) \in Power
         /\ SetMode(p, mode).blockers = p.blockers \cup {"ACCEL", "MOTION"}
         /\ SetMode(p, mode).boot = p.boot /\ SetMode(p, mode).motion = p.motion
<1> DEFINE q == [p EXCEPT !.mode = mode]
<1>1. q \in Power /\ q.blockers = p.blockers /\ q.boot = p.boot /\ q.motion = p.motion
  BY Zenon DEF Power
<1> HIDE DEF q
<1>2. /\ Same(q, SetBlocker(q, {"ACCEL", "MOTION"}, TRUE))
      /\ SetBlocker(q, {"ACCEL", "MOTION"}, TRUE).blockers = q.blockers \cup {"ACCEL", "MOTION"}
  BY <1>1, Raised, Zenon DEF Owners
<1> QED BY <1>1, <1>2, Zenon DEF Same, SetMode, q

(* What a step leaves of the windows and of other owners' vetoes.            *)
Keeps(owners) == \A o \in owners : o \in power.blockers => o \in power'.blockers
Untimed == UNCHANGED clock /\ power'.boot = power.boot /\ power'.motion = power.motion
Timed ==
  \/ Untimed
  \/ /\ clock' = [clock EXCEPT !.motion = 0]
     /\ power'.boot = power.boot /\ power'.motion = [open |-> TRUE, age |-> 0]

LEMMA MovedFacts ==
  ASSUME TypeOK, NEW p \in Power, NEW moved \in BOOLEAN, Moved(p, moved)
  PROVE  /\ power' \in Power /\ power'.blockers = p.blockers /\ clock' \in Clock
         /\ p.boot = power.boot /\ p.motion = power.motion => Timed
<1>1. 0 \in 0..Over /\ 0 \in 0..(Ticks - 1)
  BY Constants, SMT DEF Over
<1>2. MotionEvent(p) \in Power /\ MotionEvent(p).blockers = p.blockers
      /\ MotionEvent(p).boot = p.boot /\ MotionEvent(p).motion = [open |-> TRUE, age |-> 0]
  BY <1>1, Zenon DEF MotionEvent, Power, Window
<1>3. [clock EXCEPT !.motion = 0] \in Clock
  BY <1>1, Zenon DEF TypeOK, Clock
<1> QED BY <1>2, <1>3, Zenon DEF Moved, TypeOK, Timed, Untimed

LEMMA Small ==
  ASSUME NEW n \in Nat, NEW m \in Nat \ {0}, n < m
  PROVE  n % m = n
  BY SMT

(* A tick makes an open window older in both accounts until it comes round.  *)
LEMMA WindowTick ==
  ASSUME NEW w \in Window, NEW length \in Nat \ {0}, length < Ticks,
         NEW age \in 0..Over, WindowOf(w, age, length)
  PROVE  /\ Older(w, 1) \in Window /\ Counted(age) \in 0..Over
         /\ WindowOf(Older(w, 1), Counted(age), length)
<1> DEFINE v == [w EXCEPT !.age = (@ + 1) % Ticks]
<1>1. w.age \in 0..(Ticks - 1) /\ (w.age + 1) % Ticks \in 0..(Ticks - 1)
  <2>1. w.age \in 0..(Ticks - 1)
    BY Zenon DEF Window
  <2> QED BY <2>1, Constants, SMT
<1>2. v \in Window /\ v.open = w.open /\ v.age = (w.age + 1) % Ticks
  BY <1>1, Zenon DEF Window
<1>3. /\ Counted(age) \in 0..Over
      /\ Counted(age) < length => age < length
      /\ Counted(age) = Over => age = Over
      /\ Counted(age) < Ticks => age < Ticks /\ Counted(age) = age + 1 /\ age + 1 \in Nat
  BY Constants, SMT DEF Counted, Over
<1>4. CASE ~w.open
  <2>1. Older(w, 1) = w
    BY <1>4, Zenon DEF Older
  <2> QED BY <1>3, <1>4, <2>1, Zenon DEF WindowOf
<1>5. CASE w.open
  <2>1. Older(w, 1) = v
    BY <1>5, Zenon DEF Older
  <2>2. Counted(age) < Ticks => v.age = Counted(age)
    <3> SUFFICES ASSUME Counted(age) < Ticks PROVE v.age = Counted(age)
      OBVIOUS
    <3>1. w.age = age /\ Counted(age) = age + 1 /\ age + 1 \in Nat /\ age + 1 < Ticks
      BY <1>3, <1>5, Zenon DEF WindowOf
    <3> QED BY <1>2, <3>1, Small, Constants
  <2> QED BY <1>2, <1>3, <1>5, <2>1, <2>2, Zenon DEF WindowOf
<1> QED BY <1>4, <1>5

(* A look closes exactly the windows that are over.                          *)
LEMMA WindowLook ==
  ASSUME NEW w \in Window, NEW length \in Nat \ {0}, length < Ticks,
         NEW age \in 0..Over, WindowOf(w, age, length)
  PROVE  /\ Latched(w, length) \in Window /\ Found(age, length) \in 0..Over
         /\ WindowOf(Latched(w, length), Found(age, length), length)
<1>1. /\ Found(age, length) \in 0..Over
      /\ Found(age, length) # age => length <= age /\ age < Ticks
      /\ Found(age, length) < length => age < length
  BY Constants, SMT DEF Found, Over
<1>2. CASE Runs(w, length)
  <2>1. Latched(w, length) = w
    BY <1>2, Zenon DEF Latched
  <2>2. w.age = age => ~(length <= age)
    BY <1>2, Constants, SMT DEF Runs
  <2>3. Found(age, length) = age
    BY <1>1, <1>2, <2>2, Zenon DEF Runs, WindowOf
  <2> QED BY <1>1, <2>1, <2>3, Zenon
<1>3. CASE ~Runs(w, length)
  <2> DEFINE closed == [open |-> FALSE, age |-> 0]
  <2>1. Latched(w, length) = closed /\ closed.open = FALSE
    BY <1>3, Zenon DEF Latched
  <2>2. 0 \in 0..(Ticks - 1)
    BY Constants, SMT
  <2>3. closed \in Window
    BY <2>2, Zenon DEF Window
  <2>4. ~(age < length)
    <3> SUFFICES ASSUME age < length PROVE FALSE
      OBVIOUS
    <3>1. age < Ticks
      BY Constants, SMT DEF Over
    <3> QED BY <1>3, <3>1, Zenon DEF Runs, WindowOf
  <2> QED BY <1>1, <2>1, <2>3, <2>4, Zenon DEF WindowOf
<1> QED BY <1>2, <1>3

(* What the two steps that touch both windows leave alone.                   *)
Ages == /\ power' \in Power /\ power'.blockers = power.blockers /\ power'.mode = power.mode
        /\ clock' \in Clock /\ WindowInv'

LEMMA TwoWindows ==
  ASSUME NEW b \in Window, NEW m \in Window, NEW x \in 0..Over, NEW y \in 0..Over,
         power \in Power, power' = [power EXCEPT !.boot = b, !.motion = m],
         clock' = [boot |-> x, motion |-> y],
         WindowOf(b, x, BootWindow), WindowOf(m, y, MotionWindow)
  PROVE  Ages
<1>1. /\ power' \in Power /\ power'.blockers = power.blockers /\ power'.mode = power.mode
      /\ power'.boot = b /\ power'.motion = m
  BY Zenon DEF Power
<1>2. clock' \in Clock /\ clock'.boot = x /\ clock'.motion = y
  BY Zenon DEF Clock
<1> QED BY <1>1, <1>2, Zenon DEF Ages, WindowInv

LEMMA Windows ==
  ASSUME TypeOK
  PROVE  /\ power \in Power /\ power.boot \in Window /\ power.motion \in Window
         /\ clock.boot \in 0..Over /\ clock.motion \in 0..Over
  BY Zenon DEF TypeOK, Power, Clock

LEMMA LookFacts ==
  ASSUME TypeOK, WindowInv, LookNow
  PROVE  Ages
<1> DEFINE b == Latched(power.boot, BootWindow)
           m == Latched(power.motion, MotionWindow)
           x == Found(clock.boot, BootWindow)
           y == Found(clock.motion, MotionWindow)
<1>1. /\ b \in Window /\ m \in Window /\ x \in 0..Over /\ y \in 0..Over
      /\ WindowOf(b, x, BootWindow) /\ WindowOf(m, y, MotionWindow)
  BY Windows, WindowLook, Constants, Zenon DEF WindowInv
<1>2. power' = [power EXCEPT !.boot = b, !.motion = m] /\ clock' = [boot |-> x, motion |-> y]
  BY Windows, Zenon DEF LookNow, Look, Power
<1> HIDE DEF b, m, x, y
<1> QED BY <1>1, <1>2, Windows, TwoWindows, Zenon

LEMMA TickFacts ==
  ASSUME TypeOK, WindowInv, Elapse
  PROVE  Ages
<1> DEFINE b == Older(power.boot, 1)
           m == Older(power.motion, 1)
           x == Counted(clock.boot)
           y == Counted(clock.motion)
<1>1. /\ b \in Window /\ m \in Window /\ x \in 0..Over /\ y \in 0..Over
      /\ WindowOf(b, x, BootWindow) /\ WindowOf(m, y, MotionWindow)
  BY Windows, WindowTick, Constants, Zenon DEF WindowInv
<1>2. power' = [power EXCEPT !.boot = b, !.motion = m] /\ clock' = [boot |-> x, motion |-> y]
  BY Windows, Zenon DEF Elapse, Later, Power
<1> HIDE DEF b, m, x, y
<1> QED BY <1>1, <1>2, Windows, TwoWindows, Zenon

-----------------------------------------------------------------------------
(* Each task and the vetoes *)

(* The three steps of accelTask that may report a movement.                  *)
LEMMA SampleFacts ==
  ASSUME TypeOK, AccelSample
  PROVE  /\ power' \in Power /\ clock' \in Clock /\ Timed
         /\ power'.blockers = power.blockers \cup {"ACCEL"}
<1> DEFINE p == SetBlocker(power, {"ACCEL"}, TRUE)
<1>1. Same(power, p) /\ p.blockers = power.blockers \cup {"ACCEL"}
  BY Raised, Zenon DEF TypeOK, Owners
<1>2. \E moved \in BOOLEAN : Moved(p, moved)
  BY Zenon DEF AccelSample, Hold
<1> HIDE DEF p
<1> QED BY <1>1, <1>2, MovedFacts, Zenon DEF Same

LEMMA InitFacts ==
  ASSUME TypeOK, AccelInit
  PROVE  /\ power' \in Power /\ clock' \in Clock /\ Timed
         /\ power'.blockers \in {power.blockers, power.blockers \cup {"MOTION"}}
<1>1. PICK p \in {power, MotionFault(power)}, moved \in BOOLEAN : Moved(p, moved)
  BY Zenon DEF AccelInit
<1>2. Same(power, p) /\ p.blockers \in {power.blockers, power.blockers \cup {"MOTION"}}
  BY FaultFacts, Zenon DEF TypeOK, Same
<1> QED BY <1>1, <1>2, MovedFacts, Zenon DEF Same

LEMMA ReadFacts ==
  ASSUME TypeOK, AccelRead
  PROVE  /\ power' \in Power /\ clock' \in Clock /\ Timed
         /\ power'.blockers \in {power.blockers, power.blockers \cup {"MOTION"}}
<1>1. sensor.high \in BOOLEAN
  BY Zenon DEF TypeOK, Sensor
<1>2. PICK p \in {power, MotionFault(power)}, moved \in BOOLEAN : Moved(p, moved)
  BY <1>1, Zenon DEF AccelRead
<1>3. Same(power, p) /\ p.blockers \in {power.blockers, power.blockers \cup {"MOTION"}}
  BY FaultFacts, Zenon DEF TypeOK, Same
<1> QED BY <1>2, <1>3, MovedFacts, Zenon DEF Same

(* What a task that waits does to its own veto depends on the mode.          *)
LEMMA WaitFacts ==
  ASSUME TypeOK, AccelWait
  PROVE  /\ Same(power, power')
         /\ IF Hold THEN power'.blockers = power.blockers \cup {"ACCEL"}
            ELSE power'.blockers = power.blockers \ {"ACCEL"}
<1>1. CASE Hold
  BY <1>1, Raised, Zenon DEF TypeOK, Owners, AccelWait, Hold
<1>2. CASE ~Hold
  BY <1>2, Lowered, Zenon DEF TypeOK, Owners, AccelWait, Hold
<1> QED BY <1>1, <1>2

LEMMA PauseFacts ==
  ASSUME TypeOK, AccelPause
  PROVE  /\ Same(power, power')
         /\ IF Hold THEN power'.blockers = power.blockers
            ELSE power'.blockers = power.blockers \ {"ACCEL"}
<1>1. CASE Hold
  BY <1>1, Zenon DEF TypeOK, AccelPause, Hold, Same
<1>2. CASE ~Hold
  BY <1>2, Lowered, Zenon DEF TypeOK, Owners, AccelPause, Hold
<1> QED BY <1>1, <1>2

LEMMA SetFacts ==
  ASSUME TypeOK, DebugSet
  PROVE  /\ Same(power, power')
         /\ IF debug.busy THEN power'.blockers = power.blockers \cup {"DEBUG"}
            ELSE power'.blockers = power.blockers \ {"DEBUG"}
<1>1. debug.busy \in BOOLEAN
  BY Zenon DEF TypeOK, DebugType
<1>2. CASE debug.busy = TRUE
  BY <1>2, Raised, Zenon DEF TypeOK, Owners, DebugSet
<1>3. CASE debug.busy = FALSE
  BY <1>3, Lowered, Zenon DEF TypeOK, Owners, DebugSet
<1> QED BY <1>1, <1>2, <1>3, Zenon

(* A command, and only a command, changes the mode; POWER STATUS is a look.  *)
LEMMA ReadLineFacts ==
  ASSUME TypeOK, DebugRead
  PROVE  \/ LookNow
         \/ /\ power' \in Power /\ Untimed
            /\ power'.blockers \in {power.blockers, power.blockers \cup {"ACCEL", "MOTION"}}
<1>1. CASE UNCHANGED <<power, clock>>
  BY <1>1, Zenon DEF TypeOK, Untimed
<1>2. CASE ~LookNow /\ ~UNCHANGED <<power, clock>>
  <2>1. /\ uart.ring # << >> /\ Head(uart.ring) \notin {"part", "STATUS"}
        /\ power' = SetMode(power, Head(uart.ring)) /\ UNCHANGED clock
    BY <1>2, Zenon DEF DebugRead
  <2>2. uart.ring \in Seq(Bytes)
    BY Zenon DEF TypeOK, Uart
  <2>3. Head(uart.ring) \in {"AUTO", "HOLD"}
    BY <2>1, <2>2 DEF Bytes
  <2> QED BY <2>1, <2>3, ModeFacts, Zenon DEF TypeOK, Untimed
<1> QED BY <1>1, <1>2

(* buttonsTask only touches its own veto and leaves the windows alone.       *)
LEMMA ButtonsPower ==
  ASSUME TypeOK, Buttons
  PROVE  power' \in Power /\ Keeps({"ACCEL", "MOTION", "DEBUG"}) /\ Untimed
<1>1. CASE ButtonsTake
  BY <1>1, Raised, Zenon DEF TypeOK, Keeps, Untimed, Owners, Same, ButtonsTake,
    ButtonsOnly, Running
<1>2. ASSUME NEW late \in BOOLEAN, ButtonsSample(late)
      PROVE  power' \in Power /\ Keeps({"ACCEL", "MOTION", "DEBUG"}) /\ Untimed
  BY <1>2, Zenon DEF TypeOK, Keeps, Untimed, ButtonsSample, ButtonsOnly, Running
<1>3. CASE ButtonsDecide
  BY <1>3, Zenon DEF TypeOK, Keeps, Untimed, ButtonsDecide, ButtonsOnly,
    ButtonsReady, Running
<1>4. CASE ButtonsRelease
  <2>1. Same(power, power') /\ power'.blockers = power.blockers \ {"INPUT"}
    BY <1>4, Lowered, Zenon DEF TypeOK, Owners, ButtonsRelease
  <2> QED BY <1>4, <2>1, Zenon DEF Keeps, Untimed, Same, ButtonsRelease, ButtonsOnly
<1>5. CASE ButtonsNotified
  BY <1>5, Zenon DEF TypeOK, Keeps, Untimed, ButtonsNotified, ButtonsOnly,
    Running
<1>6. CASE ButtonsDelayed
  BY <1>6, Zenon DEF TypeOK, Keeps, Untimed, ButtonsDelayed, ButtonsOnly,
    Running
<1> QED BY <1>1, <1>2, <1>3, <1>4, <1>5, <1>6, Zenon DEF Buttons

(* accelTask only touches its own two vetoes; it opens the motion window.    *)
LEMMA AccelTaskPower ==
  ASSUME TypeOK, AccelTask
  PROVE  power' \in Power /\ Keeps({"INPUT", "DEBUG"}) /\ Timed
<1>1. CASE AccelSample
  BY <1>1, SampleFacts, Zenon DEF Keeps
<1>2. CASE AccelEnter
  BY <1>2, Raised, Zenon DEF TypeOK, Keeps, Timed, Untimed, Owners, Same,
    AccelEnter, Accel, AccelOnly, Running
<1>3. CASE AccelLeave
  BY <1>3, Raised, Zenon DEF TypeOK, Keeps, Timed, Untimed, Owners, Same,
    AccelLeave, Accel, AccelOnly, Hold, Running
<1>4. CASE AccelTake
  BY <1>4, Raised, Zenon DEF TypeOK, Keeps, Timed, Untimed, Owners, Same,
    AccelTake, Accel, AccelOnly, Hold, Running
<1>5. CASE AccelInit
  BY <1>5, InitFacts, Zenon DEF Keeps
<1>6. CASE AccelRead
  BY <1>6, ReadFacts, Zenon DEF Keeps
<1>7. CASE AccelLook
  BY <1>7, FaultFacts, Zenon DEF TypeOK, Keeps, Timed, Untimed, Owners, Same,
    AccelLook, Accel, AccelOnly, Failure, Running
<1>8. CASE AccelArm
  BY <1>8, ArmFacts, Zenon DEF TypeOK, Keeps, Timed, Untimed, Owners, Same,
    AccelArm, Accel, AccelOnly, ArmOk, Running
<1>9. CASE AccelWait
  <2>1. Same(power, power') /\ Keeps({"INPUT", "DEBUG"})
    BY <1>9, WaitFacts, Zenon DEF Keeps, Hold
  <2> QED BY <1>9, <2>1, Zenon DEF Timed, Untimed, Same, AccelWait, AccelOnly
<1>10. CASE AccelWake
  BY <1>10, Raised, Zenon DEF TypeOK, Keeps, Timed, Untimed, Owners, Same,
    AccelWake, Accel, AccelOnly, Running
<1>11. CASE AccelPause
  <2>1. Same(power, power') /\ Keeps({"INPUT", "DEBUG"})
    BY <1>11, PauseFacts, Zenon DEF Keeps, Hold
  <2> QED BY <1>11, <2>1, Zenon DEF Timed, Untimed, Same, AccelPause, AccelOnly
<1>12. ASSUME NEW elapsed \in BOOLEAN, AccelResume(elapsed)
      PROVE  power' \in Power /\ Keeps({"INPUT", "DEBUG"}) /\ Timed
  BY <1>12, Raised, Zenon DEF TypeOK, Keeps, Timed, Untimed, Owners, Same,
    AccelResume, Accel, AccelOnly, Running
<1> QED BY <1>1, <1>2, <1>3, <1>4, <1>5, <1>6, <1>7, <1>8, <1>9, <1>10, <1>11,
  <1>12, Zenon DEF AccelTask

(* debugTask gives back its own veto only, and only looks at windows.    *)
LEMMA DebugTaskPower ==
  ASSUME TypeOK, WindowInv, DebugTask
  PROVE  power' \in Power /\ Keeps({"ACCEL", "MOTION", "INPUT"}) /\ (Untimed \/ LookNow)
<1>1. ASSUME NEW expired \in BOOLEAN, DebugTop(expired)
      PROVE  power' \in Power /\ Keeps({"ACCEL", "MOTION", "INPUT"}) /\ (Untimed \/ LookNow)
  BY <1>1, Raised, Zenon DEF TypeOK, Keeps, Untimed, Owners, Same, DebugTop,
    Debug, DebugOnly, Failure, FailureIf, Running
<1>2. CASE DebugRead
  BY <1>2, ReadLineFacts, LookFacts, Zenon DEF Keeps, Ages
<1>3. CASE DebugTell
  BY <1>3, Zenon DEF TypeOK, Keeps, Untimed, DebugTell, Debug, DebugOnly,
    Running
<1>4. CASE DebugDecide
  BY <1>4, Zenon DEF TypeOK, Keeps, Untimed, DebugDecide, Debug, DebugOnly,
    None, Running, UartReady
<1>5. CASE DebugSet
  <2>1. Same(power, power') /\ Keeps({"ACCEL", "MOTION", "INPUT"})
    BY <1>5, SetFacts, Zenon DEF Keeps
  <2> QED BY <1>5, <2>1, Zenon DEF Untimed, Same, DebugSet, DebugOnly
<1>6. CASE DebugWake
  BY <1>6, Zenon DEF TypeOK, Keeps, Untimed, DebugWake, Debug, DebugOnly,
    Running
<1> QED BY <1>1, <1>2, <1>3, <1>4, <1>5, <1>6, Zenon DEF DebugTask

(* The idle task only looks; a fault it raises is nobody's veto.             *)
LEMMA IdlePower ==
  ASSUME TypeOK, WindowInv, Idle
  PROVE  power' \in Power /\ power'.blockers = power.blockers /\ WindowInv'
<1>1. CASE Elapse \/ LookNow
  BY <1>1, LookFacts, TickFacts, Zenon DEF Ages
<1>2. CASE power' \in {power, Locked(power)} /\ UNCHANGED clock
  <2>1. Same(power, power') /\ power'.blockers = power.blockers
    BY <1>2, LockedFacts, Zenon DEF TypeOK, Same
  <2> QED BY <1>2, <2>1, Zenon DEF Same, WindowInv
<1> QED BY <1>1, <1>2, Zenon DEF Idle, IdleLook, IdleMask, IdleStop, IdleGiveUp, IdleWake,
  IdleHalt, HaltLoop, vars

LEMMA EventTyped ==
  ASSUME TypeOK, NEW kind \in Kinds, Event(kind)
  PROVE  events' \in [Kinds -> Nat]
<1>1. events \in [Kinds -> Nat] /\ events[kind] + 1 \in Nat
  BY SMT DEF TypeOK
<1> QED BY <1>1, Zenon DEF Event

LEMMA HardwareTyped ==
  ASSUME TypeOK, Hardware
  PROVE  TypeOK'
<1>1. CASE Press
  <2>1. key' \in Key
    BY <1>1, Zenon DEF TypeOK, Press, Key
  <2>2. events' \in [Kinds -> Nat]
    BY <1>1, EventTyped, Zenon DEF TypeOK, Press, Failure, FailureIf, Kinds
  <2> QED BY <1>1, <2>1, <2>2, Zenon DEF TypeOK, Press
<1>2. CASE LetGo
  <2>1. key' \in Key
    BY <1>2, Zenon DEF TypeOK, LetGo, Key
  <2> QED BY <1>2, <2>1, Zenon DEF TypeOK, LetGo
<1>3. CASE Activity
  <2>1. sensor' \in Sensor
    BY <1>3, Zenon DEF TypeOK, Activity, Sensor
  <2>2. events' \in [Kinds -> Nat]
    BY <1>3, EventTyped, Zenon DEF TypeOK, Activity, Failure, FailureIf, Kinds
  <2> QED BY <1>3, <2>1, <2>2, Zenon DEF TypeOK, Activity
<1>4. CASE Byte
  <2>1. uart' \in Uart
    BY <1>4, Zenon DEF TypeOK, Byte, Bytes, None, Uart, Bytes, None
  <2>2. Len(uart'.ring) <= RingSize
    BY <1>4, Constants, SMT DEF TypeOK, Byte, Bytes, None, Uart
  <2>3. events' \in [Kinds -> Nat]
    BY <1>4, EventTyped, Zenon DEF TypeOK, Byte, Failure, FailureIf, Kinds
  <2> QED BY <1>4, <2>1, <2>2, <2>3, Zenon DEF TypeOK, Byte
<1>5. CASE ErrorInterrupt
  <2>1. uart' \in Uart
    <3>1. << >> \in Seq(Bytes)
      OBVIOUS
    <3> QED BY <1>5, <3>1, Zenon DEF TypeOK, Uart, ErrorInterrupt
  <2>2. Len(uart'.ring) <= RingSize
    BY <1>5, Constants, SMT DEF TypeOK, ErrorInterrupt, None, Unmasked, Uart
  <2>3. debug' \in DebugType
    BY <1>5, Zenon DEF TypeOK, ErrorInterrupt, None, Unmasked, DebugType
  <2>4. events' \in [Kinds -> Nat]
    BY <1>5, EventTyped, Zenon DEF TypeOK, ErrorInterrupt, Failure, FailureIf, Kinds
  <2> QED BY <1>5, <2>1, <2>2, <2>3, <2>4, Zenon DEF TypeOK, ErrorInterrupt
<1>6. CASE ButtonInterrupt
  <2>1. key' \in Key
    BY <1>6, Zenon DEF TypeOK, ButtonInterrupt, Unmasked, Key
  <2>2. buttons' \in ButtonsType
    BY <1>6, Zenon DEF TypeOK, ButtonInterrupt, Unmasked, ButtonsType
  <2> QED BY <1>6, <2>1, <2>2, Zenon DEF TypeOK, ButtonInterrupt
<1>7. CASE MotionInterrupt
  <2>1. sensor' \in Sensor
    BY <1>7, Zenon DEF TypeOK, MotionInterrupt, Unmasked, Sensor
  <2>2. accel' \in AccelType
    BY <1>7, Zenon DEF TypeOK, MotionInterrupt, Unmasked, AccelType
  <2> QED BY <1>7, <2>1, <2>2, Zenon DEF TypeOK, MotionInterrupt
<1>8. CASE ReceiveInterrupt
  <2>1. uart' \in Uart
    <3>1. uart.ring \in Seq(Bytes) /\ uart.data \in Bytes
      BY <1>8, Zenon DEF TypeOK, Uart, ReceiveInterrupt
    <3>2. << >> \in Seq(Bytes) /\ Append(uart.ring, uart.data) \in Seq(Bytes)
      BY <3>1
    <3> QED BY <1>8, <3>2, Zenon DEF TypeOK, Uart, ReceiveInterrupt
  <2>2. Len(uart'.ring) <= RingSize
    BY <1>8, Constants, SMT DEF TypeOK, ReceiveInterrupt, None, Unmasked, Uart
  <2>3. debug' \in DebugType
    BY <1>8, Zenon DEF TypeOK, ReceiveInterrupt, None, Unmasked, DebugType
  <2> QED BY <1>8, <2>1, <2>2, <2>3, Zenon DEF TypeOK, ReceiveInterrupt
<1> QED BY <1>1, <1>2, <1>3, <1>4, <1>5, <1>6, <1>7, <1>8, Zenon DEF Hardware

LEMMA ButtonsTyped ==
  ASSUME TypeOK, Buttons
  PROVE  TypeOK'
<1>0. power' \in Power
  BY ButtonsPower
<1>1. CASE ButtonsTake
  <2>1. buttons' \in ButtonsType
    BY <1>1, Zenon DEF TypeOK, ButtonsTake, ButtonsOnly, Running, ButtonsType
  <2> QED BY <1>0, <1>1, <2>1, Zenon DEF TypeOK, ButtonsTake, ButtonsOnly
<1>2. ASSUME NEW late \in BOOLEAN, ButtonsSample(late)
      PROVE  TypeOK'
  <2>1. buttons' \in ButtonsType
    <3>1. key.raw \in BOOLEAN /\ buttons.stable \in BOOLEAN
      BY Zenon DEF TypeOK, Key, ButtonsType
    <3>2. (IF late THEN key.raw ELSE buttons.stable) \in BOOLEAN
      BY <3>1, Zenon
    <3> QED BY <1>2, <3>1, <3>2, Zenon DEF TypeOK, ButtonsSample, ButtonsType
  <2> QED BY <1>0, <1>2, <2>1, Zenon DEF TypeOK, ButtonsSample, ButtonsOnly
<1>3. CASE ButtonsDecide
  <2>1. buttons' \in ButtonsType
    BY <1>3, Zenon DEF TypeOK, ButtonsDecide, ButtonsOnly, ButtonsReady,
      Running, ButtonsType
  <2> QED BY <1>0, <1>3, <2>1, Zenon DEF TypeOK, ButtonsDecide, ButtonsOnly
<1>4. CASE ButtonsRelease
  <2>1. buttons' \in ButtonsType
    BY <1>4, Zenon DEF TypeOK, ButtonsRelease, ButtonsOnly, Running, ButtonsType
  <2> QED BY <1>0, <1>4, <2>1, Zenon DEF TypeOK, ButtonsRelease, ButtonsOnly
<1>5. CASE ButtonsNotified
  <2>1. buttons' \in ButtonsType
    BY <1>5, Zenon DEF TypeOK, ButtonsNotified, ButtonsOnly, Running,
      ButtonsType
  <2> QED BY <1>0, <1>5, <2>1, Zenon DEF TypeOK, ButtonsNotified, ButtonsOnly
<1>6. CASE ButtonsDelayed
  <2>1. buttons' \in ButtonsType
    BY <1>6, Zenon DEF TypeOK, ButtonsDelayed, ButtonsOnly, Running, ButtonsType
  <2> QED BY <1>0, <1>6, <2>1, Zenon DEF TypeOK, ButtonsDelayed, ButtonsOnly
<1> QED BY <1>1, <1>2, <1>3, <1>4, <1>5, <1>6, Zenon DEF Buttons

LEMMA AccelTaskTyped ==
  ASSUME TypeOK, AccelTask
  PROVE  TypeOK'
<1>0. power' \in Power
  BY AccelTaskPower
<1>1. CASE AccelSample
  <2>1. sensor' \in Sensor
    BY <1>1, Zenon DEF TypeOK, AccelSample, Accel, AccelOnly, Hold, Running,
      Sensor
  <2>2. accel' \in AccelType
    BY <1>1, Zenon DEF TypeOK, AccelSample, Accel, AccelOnly, Hold, Running,
      AccelType
  <2>3. clock' \in Clock
    BY <1>1, SampleFacts, Zenon
  <2> QED BY <1>0, <1>1, <2>1, <2>2, <2>3, Zenon DEF TypeOK, AccelSample,
    AccelOnly
<1>2. CASE AccelEnter
  <2>1. accel' \in AccelType
    BY <1>2, Zenon DEF TypeOK, AccelEnter, Accel, AccelOnly, Running, AccelType
  <2> QED BY <1>0, <1>2, <2>1, Zenon DEF TypeOK, AccelEnter, AccelOnly
<1>3. CASE AccelLeave
  <2>1. accel' \in AccelType
    BY <1>3, Zenon DEF TypeOK, AccelLeave, Accel, AccelOnly, Hold, Running,
      AccelType
  <2> QED BY <1>0, <1>3, <2>1, Zenon DEF TypeOK, AccelLeave, AccelOnly
<1>4. CASE AccelTake
  <2>1. sensor' \in Sensor
    BY <1>4, Zenon DEF TypeOK, AccelTake, Accel, AccelOnly, Hold, Running,
      Sensor
  <2>2. accel' \in AccelType
    BY <1>4, Zenon DEF TypeOK, AccelTake, Accel, AccelOnly, Hold, Running,
      AccelType
  <2> QED BY <1>0, <1>4, <2>1, <2>2, Zenon DEF TypeOK, AccelTake, AccelOnly
<1>5. CASE AccelInit
  <2>1. sensor' \in Sensor
    BY <1>5, Zenon DEF TypeOK, AccelInit, Accel, AccelOnly, Running, Sensor
  <2>2. accel' \in AccelType
    BY <1>5, Zenon DEF TypeOK, AccelInit, Accel, AccelOnly, Running, AccelType
  <2>3. clock' \in Clock
    BY <1>5, InitFacts, Zenon
  <2>4. events' \in [Kinds -> Nat]
    BY <1>5, EventTyped, Zenon DEF TypeOK, AccelInit, Failure, FailureIf, Kinds
  <2> QED BY <1>0, <1>5, <2>1, <2>2, <2>3, <2>4, Zenon DEF TypeOK, AccelInit,
    AccelOnly
<1>6. CASE AccelRead
  <2>1. sensor' \in Sensor
    BY <1>6, Zenon DEF TypeOK, AccelRead, Accel, AccelOnly, Running, Sensor
  <2>2. accel' \in AccelType
    <3>1. sensor.high \in BOOLEAN
      BY Zenon DEF TypeOK, Sensor
    <3> QED BY <1>6, <3>1, Zenon DEF TypeOK, AccelRead, AccelType
  <2>3. clock' \in Clock
    BY <1>6, ReadFacts, Zenon
  <2>4. events' \in [Kinds -> Nat]
    BY <1>6, EventTyped, Zenon DEF TypeOK, AccelRead, Failure, Kinds
  <2> QED BY <1>0, <1>6, <2>1, <2>2, <2>3, <2>4, Zenon DEF TypeOK, AccelRead,
    AccelOnly
<1>7. CASE AccelLook
  <2>1. accel' \in AccelType
    BY <1>7, Zenon DEF TypeOK, AccelLook, Accel, AccelOnly, Running, AccelType
  <2>2. events' \in [Kinds -> Nat]
    BY <1>7, EventTyped, Zenon DEF TypeOK, AccelLook, Failure, FailureIf, Kinds
  <2> QED BY <1>0, <1>7, <2>1, <2>2, Zenon DEF TypeOK, AccelLook, AccelOnly
<1>8. CASE AccelArm
  <2>1. accel' \in AccelType
    BY <1>8, Zenon DEF TypeOK, AccelArm, Accel, AccelOnly, ArmOk, Running,
      AccelType
  <2> QED BY <1>0, <1>8, <2>1, Zenon DEF TypeOK, AccelArm, AccelOnly
<1>9. CASE AccelWait
  <2>1. accel' \in AccelType
    BY <1>9, Zenon DEF TypeOK, AccelWait, Accel, AccelOnly, Hold, Running,
      AccelType
  <2> QED BY <1>0, <1>9, <2>1, Zenon DEF TypeOK, AccelWait, AccelOnly
<1>10. CASE AccelWake
  <2>1. accel' \in AccelType
    BY <1>10, Zenon DEF TypeOK, AccelWake, Accel, AccelOnly, Running, AccelType
  <2> QED BY <1>0, <1>10, <2>1, Zenon DEF TypeOK, AccelWake, AccelOnly
<1>11. CASE AccelPause
  <2>1. accel' \in AccelType
    BY <1>11, Zenon DEF TypeOK, AccelPause, Accel, AccelOnly, Hold, Running,
      AccelType
  <2> QED BY <1>0, <1>11, <2>1, Zenon DEF TypeOK, AccelPause, AccelOnly
<1>12. ASSUME NEW elapsed \in BOOLEAN, AccelResume(elapsed)
      PROVE  TypeOK'
  <2>1. accel' \in AccelType
    BY <1>12, Zenon DEF TypeOK, AccelResume, Accel, AccelOnly, Running,
      AccelType
  <2> QED BY <1>0, <1>12, <2>1, Zenon DEF TypeOK, AccelResume, AccelOnly
<1> QED BY <1>1, <1>2, <1>3, <1>4, <1>5, <1>6, <1>7, <1>8, <1>9, <1>10, <1>11,
  <1>12, Zenon DEF AccelTask

LEMMA DebugTaskTyped ==
  ASSUME TypeOK, WindowInv, DebugTask
  PROVE  TypeOK'
<1>0. power' \in Power /\ clock' \in Clock
  BY DebugTaskPower, LookFacts, Zenon DEF Ages, Untimed, TypeOK
<1>1. ASSUME NEW expired \in BOOLEAN, DebugTop(expired)
      PROVE  TypeOK'
  <2>1. uart' \in Uart
    BY <1>1, Zenon DEF TypeOK, DebugTop, Debug, DebugOnly, Running, Uart, Bytes,
      None
  <2>2. Len(uart'.ring) <= RingSize
    BY <1>1, Constants, SMT DEF TypeOK, DebugTop, Debug, DebugOnly, Running,
      Uart
  <2>3. debug' \in DebugType
    BY <1>1, Zenon DEF TypeOK, DebugTop, Debug, DebugOnly, Running, DebugType
  <2>4. events' \in [Kinds -> Nat]
    BY <1>1, EventTyped, Zenon DEF TypeOK, DebugTop, Failure, FailureIf, Kinds
  <2> QED BY <1>0, <1>1, <2>1, <2>2, <2>3, <2>4, Zenon DEF TypeOK, DebugTop,
    DebugOnly
<1>2. CASE DebugRead
  <2>1. uart' \in Uart
    <3>1. uart.ring \in Seq(Bytes)
      BY Zenon DEF TypeOK, Uart
    <3>2. uart.ring # << >> => Tail(uart.ring) \in Seq(Bytes)
      BY <3>1
    <3> QED BY <1>2, <3>1, <3>2, Zenon DEF TypeOK, Uart, DebugRead
  <2>2. Len(uart'.ring) <= RingSize
    BY <1>2, Constants, SMT DEF TypeOK, DebugRead, Debug, DebugOnly, Running,
      Uart
  <2>3. debug' \in DebugType
    BY <1>2, Zenon DEF TypeOK, DebugRead, Debug, DebugOnly, Running, DebugType
  <2> QED BY <1>0, <1>2, <2>1, <2>2, <2>3, Zenon DEF TypeOK, DebugRead,
    DebugOnly
<1>3. CASE DebugTell
  <2>1. accel' \in AccelType
    BY <1>3, Zenon DEF TypeOK, DebugTell, Debug, DebugOnly, Running, AccelType
  <2>2. debug' \in DebugType
    BY <1>3, Zenon DEF TypeOK, DebugTell, Debug, DebugOnly, Running, DebugType
  <2> QED BY <1>0, <1>3, <2>1, <2>2, Zenon DEF TypeOK, DebugTell, DebugOnly
<1>4. CASE DebugDecide
  <2>1. debug' \in DebugType
    BY <1>4, Zenon DEF TypeOK, DebugDecide, Debug, DebugOnly, None, Running,
      UartReady, DebugType
  <2> QED BY <1>0, <1>4, <2>1, Zenon DEF TypeOK, DebugDecide, DebugOnly
<1>5. CASE DebugSet
  <2>1. debug' \in DebugType
    BY <1>5, Zenon DEF TypeOK, DebugSet, Debug, DebugOnly, Running, DebugType
  <2> QED BY <1>0, <1>5, <2>1, Zenon DEF TypeOK, DebugSet, DebugOnly
<1>6. CASE DebugWake
  <2>1. debug' \in DebugType
    BY <1>6, Zenon DEF TypeOK, DebugWake, Debug, DebugOnly, Running, DebugType
  <2> QED BY <1>0, <1>6, <2>1, Zenon DEF TypeOK, DebugWake, DebugOnly
<1> QED BY <1>1, <1>2, <1>3, <1>4, <1>5, <1>6, Zenon DEF DebugTask

LEMMA IdleTyped ==
  ASSUME TypeOK, WindowInv, Idle
  PROVE  TypeOK'
<1>0. power' \in Power
  BY IdlePower
<1>1. CASE Elapse \/ IdleLook
  <2>1. clock' \in Clock
    BY <1>1, LookFacts, TickFacts, Zenon DEF Ages, IdleLook
  <2>2. cpu' \in {"run", "entry", "masked", "stopped", "halted"}
    BY <1>1, Zenon DEF TypeOK, Elapse, IdleLook
  <2> QED BY <1>0, <1>1, <2>1, <2>2, Zenon DEF TypeOK, Elapse, IdleLook, IdleOnly
<1>2. CASE IdleMask
  <2>1. cpu' \in {"run", "entry", "masked", "stopped", "halted"}
    BY <1>2, Zenon DEF IdleMask
  <2>2. uart' \in Uart /\ uart'.ring = uart.ring
    BY <1>2, Zenon DEF TypeOK, IdleMask, Uart
  <2>3. events' \in [Kinds -> Nat]
    BY <1>2, EventTyped, Zenon DEF TypeOK, IdleMask, Failure, Kinds
  <2> QED BY <1>0, <1>2, <2>1, <2>2, <2>3, Zenon DEF TypeOK, IdleMask, IdleOnly
<1>3. CASE IdleStop
  <2>1. cpu' \in {"run", "entry", "masked", "stopped", "halted"}
    BY <1>3, Zenon DEF TypeOK, IdleStop, AllBlocked, ButtonsReady, IdleOnly,
      MotionClear, Quiet
  <2> QED BY <1>3, <2>1, Zenon DEF TypeOK, IdleStop, IdleOnly
<1>4. CASE IdleGiveUp \/ IdleWake
  <2>1. PICK failed \in BOOLEAN : Resume(failed)
    BY <1>4, Zenon DEF IdleGiveUp, IdleWake
  <2>2. uart' \in Uart /\ uart'.ring = uart.ring /\ cpu' = "run"
    BY <2>1, Zenon DEF TypeOK, Resume, Uart, None
  <2>3. events' \in [Kinds -> Nat]
    BY <1>4, EventTyped, Zenon DEF TypeOK, IdleGiveUp, IdleWake, Failure, FailureIf, Kinds
  <2> QED BY <1>0, <1>4, <2>2, <2>3, Zenon DEF TypeOK, IdleGiveUp, IdleWake, IdleOnly
<1>5. CASE IdleHalt
  <2>1. events' \in [Kinds -> Nat]
    BY <1>5, EventTyped, Zenon DEF IdleHalt, Failure, Kinds
  <2> QED BY <1>0, <1>5, <2>1, Zenon DEF TypeOK, IdleHalt, IdleOnly
<1>6. CASE HaltLoop
  BY <1>6, Zenon DEF TypeOK, HaltLoop, vars
<1> QED BY <1>1, <1>2, <1>3, <1>4, <1>5, <1>6, Zenon DEF Idle

LEMMA ButtonsInvStep ==
  ASSUME TypeOK, WindowInv, ButtonsInv, Next
  PROVE  ButtonsInv'
<1>1. CASE ButtonsTake
  <2>1. "INPUT" \in power'.blockers
    BY <1>1, Raised, Zenon DEF TypeOK, Owners, ButtonsTake
  <2>2. buttons'.pc = "sample"
    BY <1>1, Zenon DEF TypeOK, ButtonsType, ButtonsTake
  <2> QED BY <2>1, <2>2, Zenon DEF ButtonsInv
<1>2. ASSUME NEW late \in BOOLEAN, ButtonsSample(late)
      PROVE  ButtonsInv'
  BY <1>2, Zenon DEF TypeOK, ButtonsInv, ButtonsType, ButtonsSample,
    ButtonsOnly, Running
<1>3. CASE ButtonsDecide
  BY <1>3, Zenon DEF TypeOK, ButtonsInv, ButtonsType, ButtonsDecide,
    ButtonsOnly, ButtonsReady, Running
<1>4. CASE ButtonsRelease
  BY <1>4, Lowered, Zenon DEF TypeOK, ButtonsInv, ButtonsType, Owners, Same,
    ButtonsRelease, ButtonsOnly, Running
<1>5. CASE ButtonsNotified
  BY <1>5, Zenon DEF TypeOK, ButtonsInv, ButtonsType, ButtonsNotified,
    ButtonsOnly, Running
<1>6. CASE ButtonsDelayed
  BY <1>6, Zenon DEF TypeOK, ButtonsInv, ButtonsType, ButtonsDelayed,
    ButtonsOnly, Running
<1>7. CASE Hardware
  BY <1>7, Zenon DEF TypeOK, Hardware, ButtonsInv, ButtonsType, Press, LetGo,
    Activity, Byte, ErrorInterrupt, ButtonInterrupt, MotionInterrupt,
    ReceiveInterrupt
<1>8. CASE AccelTask
  BY <1>8, AccelTaskPower, Zenon DEF TypeOK, Keeps, ButtonsInv, ButtonsType,
    AccelTask, AccelSample, AccelEnter, AccelLeave, AccelTake, AccelInit,
    AccelRead, AccelLook, AccelArm, AccelWait, AccelWake, AccelPause,
    AccelResume, AccelOnly
<1>9. CASE DebugTask
  BY <1>9, DebugTaskPower, Zenon DEF TypeOK, Keeps, ButtonsInv, ButtonsType,
    DebugTask, DebugTop, DebugRead, DebugTell, DebugDecide, DebugSet, DebugWake,
    DebugOnly
<1>10. CASE Idle
  BY <1>10, IdlePower, Zenon DEF TypeOK, ButtonsInv, Idle, Elapse, IdleLook, IdleMask, IdleStop,
    IdleGiveUp, IdleWake, IdleHalt, HaltLoop, IdleOnly, vars
<1> QED BY <1>1, <1>2, <1>3, <1>4, <1>5, <1>6, <1>7, <1>8, <1>9, <1>10, Zenon
  DEF Next, Buttons

LEMMA AccelInvStep ==
  ASSUME TypeOK, WindowInv, AccelInv, Next
  PROVE  AccelInv'
<1>1. CASE AccelSample
  <2>1. power'.blockers = power.blockers \cup {"ACCEL"}
    BY <1>1, SampleFacts
  <2>2. accel'.pc \in {"sampling", "failing", "enter"} /\ accel.pc \in {"sampling", "failing"}
    BY <1>1, Zenon DEF TypeOK, AccelType, AccelSample, Accel
  <2> QED BY <2>1, <2>2, Zenon DEF AccelInv
<1>2. CASE AccelEnter
  <2>1. {"ACCEL", "MOTION"} \subseteq power'.blockers
    BY <1>2, Raised, Zenon DEF TypeOK, Owners, AccelEnter
  <2>2. accel'.pc = "loop" /\ accel'.initialized = FALSE
    BY <1>2, Zenon DEF TypeOK, AccelType, Sensor, AccelEnter, Accel
  <2> QED BY <2>1, <2>2, Zenon DEF AccelInv
<1>3. CASE AccelLeave
  <2>1. power'.blockers = power.blockers \cup {"MOTION"}
    BY <1>3, Raised, Zenon DEF TypeOK, Owners, AccelLeave
  <2>2. accel'.pc = "sampling" /\ accel.pc = "loop"
    BY <1>3, Zenon DEF TypeOK, AccelType, Sensor, AccelLeave, Accel
  <2> QED BY <2>1, <2>2, Zenon DEF AccelInv
<1>4. CASE AccelTake
  <2>1. /\ power'.blockers \in {power.blockers, power.blockers \cup {"MOTION"}}
        /\ "MOTION" \in power'.blockers \/ ~accel.initialized
    BY <1>4, Raised, Zenon DEF TypeOK, Owners, AccelTake
  <2>2. /\ accel.pc = "loop" /\ accel'.pc \in {"read", "init"}
        /\ accel'.pc = "read" => accel'.initialized
        /\ accel'.initialized = accel.initialized /\ sensor'.armed = sensor.armed
    BY <1>4, Zenon DEF TypeOK, AccelType, Sensor, AccelTake, Accel
  <2> QED BY <2>1, <2>2, Zenon DEF AccelInv
<1>5. CASE AccelInit
  <2>1. power'.blockers \in {power.blockers, power.blockers \cup {"MOTION"}}
    BY <1>5, InitFacts
  <2>2. accel.pc = "init" /\ accel'.pc = "pause" /\ (accel'.initialized => sensor'.armed)
    BY <1>5, Zenon DEF TypeOK, AccelType, Sensor, AccelInit, Accel
  <2> QED BY <2>1, <2>2, Zenon DEF AccelInv
<1>6. CASE AccelRead
  <2>1. power'.blockers \in {power.blockers, power.blockers \cup {"MOTION"}}
    BY <1>6, ReadFacts
  <2>2. /\ accel.pc = "read" /\ accel'.pc \in {"look", "pause"}
        /\ accel'.pc = "look" => accel'.initialized = accel.initialized
        /\ accel'.pc = "pause" => ~accel'.initialized
        /\ sensor'.armed = sensor.armed
    BY <1>6, Zenon DEF TypeOK, AccelType, Sensor, AccelRead, Accel
  <2> QED BY <2>1, <2>2, Zenon DEF AccelInv
<1>7. CASE AccelLook
  <2>1. power'.blockers \in {power.blockers, power.blockers \cup {"MOTION"}}
    BY <1>7, FaultFacts, Zenon DEF TypeOK, AccelLook
  <2>2. /\ accel.pc = "look" /\ accel'.pc \in {"arm", "pause"}
        /\ accel'.initialized \in {accel.initialized, FALSE}
        /\ accel'.pc = "arm" => accel'.initialized = accel.initialized
        /\ sensor'.armed = sensor.armed
    BY <1>7, Zenon DEF TypeOK, AccelType, Sensor, AccelLook, Accel
  <2> QED BY <2>1, <2>2, Zenon DEF AccelInv
<1>8. CASE AccelArm
  BY <1>8, ArmFacts, Zenon DEF TypeOK, AccelInv, AccelType, Sensor, Owners,
    Same, AccelArm, Accel, AccelOnly, ArmOk, Running
<1>9. CASE AccelWait
  <2>1. IF Hold THEN power'.blockers = power.blockers \cup {"ACCEL"}
        ELSE power'.blockers = power.blockers \ {"ACCEL"}
    BY <1>9, WaitFacts
  <2>2. /\ accel.pc = "wait" /\ accel'.pc = IF Hold THEN "loop" ELSE "waiting"
        /\ accel'.initialized = accel.initialized /\ sensor'.armed = sensor.armed
    BY <1>9, Zenon DEF TypeOK, AccelType, Sensor, AccelWait, Accel
  <2> QED BY <2>1, <2>2, Zenon DEF AccelInv
<1>10. CASE AccelWake
  <2>1. power'.blockers = power.blockers \cup {"ACCEL"}
    BY <1>10, Raised, Zenon DEF TypeOK, Owners, AccelWake
  <2>2. /\ accel.pc = "waiting" /\ accel'.pc = "loop"
        /\ accel'.initialized = accel.initialized /\ sensor'.armed = sensor.armed
    BY <1>10, Zenon DEF TypeOK, AccelType, Sensor, AccelWake, Accel
  <2> QED BY <2>1, <2>2, Zenon DEF AccelInv
<1>11. CASE AccelPause
  <2>1. IF Hold THEN power'.blockers = power.blockers
        ELSE power'.blockers = power.blockers \ {"ACCEL"}
    BY <1>11, PauseFacts
  <2>2. /\ accel.pc = "pause" /\ accel'.pc = IF Hold THEN "loop" ELSE "pausing"
        /\ accel'.initialized = accel.initialized /\ sensor'.armed = sensor.armed
    BY <1>11, Zenon DEF TypeOK, AccelType, Sensor, AccelPause, Accel
  <2> QED BY <2>1, <2>2, Zenon DEF AccelInv
<1>12. ASSUME NEW elapsed \in BOOLEAN, AccelResume(elapsed)
      PROVE  AccelInv'
  <2>1. power'.blockers = power.blockers \cup {"ACCEL"}
    BY <1>12, Raised, Zenon DEF TypeOK, Owners, AccelResume
  <2>2. /\ accel.pc = "pausing" /\ accel'.pc \in {"loop", "pause"}
        /\ accel'.initialized = accel.initialized /\ sensor'.armed = sensor.armed
    BY <1>12, Zenon DEF TypeOK, AccelType, Sensor, AccelResume, Accel
  <2> QED BY <2>1, <2>2, Zenon DEF AccelInv
<1>13. CASE Hardware
  BY <1>13, Zenon DEF TypeOK, Hardware, AccelInv, AccelType, Sensor, Press,
    LetGo, Activity, Byte, ErrorInterrupt, ButtonInterrupt, MotionInterrupt,
    ReceiveInterrupt
<1>14. CASE Buttons
  BY <1>14, ButtonsPower, Zenon DEF TypeOK, Keeps, AccelInv, AccelType, Sensor,
    Buttons, ButtonsTake, ButtonsSample, ButtonsDecide, ButtonsRelease,
    ButtonsNotified, ButtonsDelayed, ButtonsOnly
<1>15. CASE DebugTask
  BY <1>15, DebugTaskPower, Zenon DEF TypeOK, Keeps, AccelInv, AccelType,
    Sensor, DebugTask, DebugTop, DebugRead, DebugTell, DebugDecide, DebugSet,
    DebugWake, DebugOnly
<1>16. CASE Idle
  BY <1>16, IdlePower, Zenon DEF TypeOK, AccelInv, Idle, Elapse, IdleLook, IdleMask, IdleStop,
    IdleGiveUp, IdleWake, IdleHalt, HaltLoop, IdleOnly, vars
<1> QED BY <1>1, <1>2, <1>3, <1>4, <1>5, <1>6, <1>7, <1>8, <1>9, <1>10, <1>11,
  <1>12, <1>13, <1>14, <1>15, <1>16, Zenon DEF Next, AccelTask

LEMMA DebugInvStep ==
  ASSUME TypeOK, WindowInv, DebugInv, Next
  PROVE  DebugInv'
<1>1. ASSUME NEW expired \in BOOLEAN, DebugTop(expired)
      PROVE  DebugInv'
  <2>1. "DEBUG" \in power'.blockers
    BY <1>1, Raised, Zenon DEF TypeOK, Owners, DebugTop
  <2>2. debug'.pc = "read"
    BY <1>1, Zenon DEF TypeOK, DebugType, DebugTop
  <2> QED BY <2>1, <2>2, Zenon DEF DebugInv
<1>2. CASE DebugRead
  <2>1. power'.blockers \in {power.blockers, power.blockers \cup {"ACCEL", "MOTION"}}
    BY <1>2, ReadLineFacts, LookFacts, Zenon DEF Ages
  <2>2. debug.pc = "read" /\ debug'.pc \in {"read", "decide", "tell"}
    BY <1>2, Zenon DEF TypeOK, DebugType, DebugRead, Debug
  <2> QED BY <2>1, <2>2, Zenon DEF DebugInv
<1>3. CASE DebugTell
  BY <1>3, Zenon DEF TypeOK, DebugInv, DebugType, DebugTell, Debug, DebugOnly,
    Running
<1>4. CASE DebugDecide
  BY <1>4, Zenon DEF TypeOK, DebugInv, DebugType, DebugDecide, Debug, DebugOnly,
    None, Running, UartReady
<1>5. CASE DebugSet
  <2>1. IF debug.busy THEN power'.blockers = power.blockers \cup {"DEBUG"}
        ELSE power'.blockers = power.blockers \ {"DEBUG"}
    BY <1>5, SetFacts
  <2>2. debug.pc = "set" /\ debug'.pc = "wait" /\ debug'.line = debug.line
    BY <1>5, Zenon DEF TypeOK, DebugType, DebugSet, Debug
  <2> QED BY <2>1, <2>2, Zenon DEF DebugInv
<1>6. CASE DebugWake
  BY <1>6, Zenon DEF TypeOK, DebugInv, DebugType, DebugWake, Debug, DebugOnly,
    Running
<1>7. CASE Hardware
  BY <1>7, Zenon DEF TypeOK, Hardware, DebugInv, DebugType, Press, LetGo,
    Activity, Byte, ErrorInterrupt, ButtonInterrupt, MotionInterrupt,
    ReceiveInterrupt
<1>8. CASE Buttons
  BY <1>8, ButtonsPower, Zenon DEF TypeOK, Keeps, DebugInv, DebugType, Buttons,
    ButtonsTake, ButtonsSample, ButtonsDecide, ButtonsRelease, ButtonsNotified,
    ButtonsDelayed, ButtonsOnly
<1>9. CASE AccelTask
  BY <1>9, AccelTaskPower, Zenon DEF TypeOK, Keeps, DebugInv, DebugType,
    AccelTask, AccelSample, AccelEnter, AccelLeave, AccelTake, AccelInit,
    AccelRead, AccelLook, AccelArm, AccelWait, AccelWake, AccelPause,
    AccelResume, AccelOnly
<1>10. CASE Idle
  BY <1>10, IdlePower, Zenon DEF TypeOK, DebugInv, Idle, Elapse, IdleLook, IdleMask, IdleStop,
    IdleGiveUp, IdleWake, IdleHalt, HaltLoop, IdleOnly, vars
<1> QED BY <1>1, <1>2, <1>3, <1>4, <1>5, <1>6, <1>7, <1>8, <1>9, <1>10, Zenon
  DEF Next, DebugTask

(* The processor and the receiver.  Only a running processor lets a task     *)
(* act, and only an unmasked one an interrupt.                               *)
LEMMA StopInvStep ==
  ASSUME TypeOK, StopInv, Next
  PROVE  StopInv'
<1>1. CASE Hardware
  <2>1. CASE Press
    BY <2>1, Zenon DEF StopInv, Press, Wakes, AllBlocked, ButtonsWait, AccelWaits, TypeOK, Key
  <2>2. CASE LetGo
    BY <2>2, Zenon DEF StopInv, LetGo, Wakes, AllBlocked, ButtonsWait, AccelWaits, TypeOK, Key
  <2>3. CASE Activity
    BY <2>3, Zenon DEF StopInv, Activity, Wakes, AllBlocked, ButtonsWait, AccelWaits, TypeOK, Sensor
  <2>4. CASE Byte
    <3>1. uart'.ring = uart.ring
      BY <2>4, Zenon DEF Byte, TypeOK, Uart
    <3> QED BY <2>4, <3>1, Zenon DEF StopInv, Byte, Wakes, AllBlocked, ButtonsWait, AccelWaits
  <2>5. CASE ErrorInterrupt \/ ButtonInterrupt \/ MotionInterrupt \/ ReceiveInterrupt
    BY <2>5, Zenon DEF StopInv, Unmasked, ErrorInterrupt, ButtonInterrupt, MotionInterrupt,
      ReceiveInterrupt
  <2> QED BY <1>1, <2>1, <2>2, <2>3, <2>4, <2>5, Zenon DEF Hardware
<1>2. CASE Buttons
  BY <1>2, Zenon DEF StopInv, Buttons, ButtonsTake, ButtonsSample, ButtonsDecide, ButtonsRelease,
    ButtonsNotified, ButtonsDelayed, ButtonsOnly, Running
<1>3. CASE AccelTask
  BY <1>3, Zenon DEF StopInv, AccelTask, AccelSample, AccelEnter, AccelLeave, AccelTake,
    AccelInit, AccelRead, AccelLook, AccelArm, AccelWait, AccelWake, AccelPause, AccelResume,
    AccelOnly, Accel, Running
<1>4. CASE DebugTask
  BY <1>4, Zenon DEF StopInv, DebugTask, DebugTop, DebugRead, DebugTell, DebugDecide, DebugSet,
    DebugWake, DebugOnly, Debug, Running
<1>5. CASE Idle
  <2>1. CASE Elapse \/ IdleLook \/ IdleHalt
    BY <2>1, Zenon DEF StopInv, Elapse, IdleLook, IdleHalt, Running
  <2>2. CASE IdleMask
    <3>1. cpu' = "masked" => UartReady /\ uart'.ring = uart.ring
      BY <2>2, Zenon DEF IdleMask, TypeOK, Uart
    <3> QED BY <2>2, <3>1, Zenon DEF IdleMask, StopInv, UartReady
  <2>3. CASE IdleStop
    <3>1. Wakes
      BY <2>3, Zenon DEF IdleStop, Quiet, MotionClear, ButtonsReady, Wakes
    <3> QED BY <2>3, <3>1, Zenon DEF IdleStop, IdleOnly, Quiet, StopInv, Wakes, AllBlocked,
      ButtonsWait, AccelWaits
  <2>4. CASE IdleGiveUp \/ IdleWake
    BY <2>4, Zenon DEF IdleGiveUp, IdleWake, Resume, StopInv
  <2>5. CASE HaltLoop
    BY <2>5, Zenon DEF HaltLoop, StopInv, vars
  <2> QED BY <1>5, <2>1, <2>2, <2>3, <2>4, <2>5, Zenon DEF Idle
<1> QED BY <1>1, <1>2, <1>3, <1>4, <1>5, Zenon DEF Next

(* The windows only move with a tick, in a look or with a movement.          *)
LEMMA WindowInvStep ==
  ASSUME TypeOK, WindowInv, Next
  PROVE  WindowInv'
<1>1. ASSUME Untimed
      PROVE  WindowInv'
  BY <1>1, Zenon DEF Untimed, WindowInv
<1>2. ASSUME Timed
      PROVE  WindowInv'
  <2>1. CASE Untimed
    BY <1>1, <2>1
  <2>2. CASE ~Untimed
    <3>1. /\ clock'.boot = clock.boot /\ clock'.motion = 0
          /\ power'.boot = power.boot /\ power'.motion = [open |-> TRUE, age |-> 0]
      BY <1>2, <2>2, Zenon DEF Timed, TypeOK, Clock
    <3>2. 0 # Over
      BY Constants, SMT DEF Over
    <3>3. WindowOf([open |-> TRUE, age |-> 0], 0, MotionWindow)
      BY <3>2, Zenon DEF WindowOf
    <3>4. WindowOf(power'.boot, clock'.boot, BootWindow)
      BY <3>1, Zenon DEF WindowInv
    <3> QED BY <3>1, <3>3, <3>4, Zenon DEF WindowInv
  <2> QED BY <2>1, <2>2
<1>3. CASE Hardware
  BY <1>1, <1>3, Zenon DEF Hardware, Untimed, Press, LetGo, Activity, Byte, ErrorInterrupt,
    ButtonInterrupt, MotionInterrupt, ReceiveInterrupt
<1>4. CASE Buttons
  BY <1>1, <1>4, ButtonsPower, Zenon
<1>5. CASE AccelTask
  BY <1>2, <1>5, AccelTaskPower, Zenon
<1>6. CASE DebugTask
  BY <1>1, <1>6, DebugTaskPower, LookFacts, Zenon DEF Ages
<1>7. CASE Idle
  BY <1>7, IdlePower, Zenon
<1> QED BY <1>3, <1>4, <1>5, <1>6, <1>7, Zenon DEF Next

(* A wait begins only over an event's interrupt or notification; what is     *)
(* consumed before it has been looked at by then.                            *)
LEMMA EventInvStep ==
  ASSUME TypeOK, EventInv, Next
  PROVE  EventInv'
<1>1. CASE Hardware
  <2>1. CASE Press \/ LetGo
    <3>1. key'.raw => key'.edge
      <4>1. CASE Press
        BY <4>1, Zenon DEF Press
      <4>2. CASE LetGo
        BY <4>2, Zenon DEF TypeOK, Key, LetGo
      <4> QED BY <2>1, <4>1, <4>2
    <3>2. UNCHANGED <<buttons, sensor, accel, uart, debug>>
      BY <2>1, Zenon DEF Press, LetGo
    <3> QED BY <3>1, <3>2, Zenon DEF EventInv
  <2>6. CASE ButtonInterrupt
    BY <2>6, Zenon DEF TypeOK, Key, ButtonsType, ButtonInterrupt, EventInv
  <2>2. CASE Activity
    BY <2>2, Zenon DEF TypeOK, Sensor, Activity, EventInv
  <2>3. CASE MotionInterrupt
    BY <2>3, Zenon DEF TypeOK, Sensor, AccelType, MotionInterrupt, EventInv
  <2>4. CASE Byte
    <3>1. uart'.ring = uart.ring /\ uart'.error = uart.error
      BY <2>4, Zenon DEF Byte, TypeOK, Uart
    <3> QED BY <2>4, <3>1, Zenon DEF Byte, EventInv
  <2>5. CASE ErrorInterrupt \/ ReceiveInterrupt
    BY <2>5, Zenon DEF TypeOK, DebugType, ErrorInterrupt, ReceiveInterrupt, EventInv
  <2> QED BY <1>1, <2>1, <2>2, <2>3, <2>4, <2>5, <2>6, Zenon DEF Hardware
<1>2. CASE Buttons
  <2>1. UNCHANGED <<key, sensor, accel, uart, debug>>
    BY <1>2, Zenon DEF Buttons, ButtonsTake, ButtonsSample, ButtonsDecide, ButtonsRelease,
      ButtonsNotified, ButtonsDelayed, ButtonsOnly
  <2>2. CASE ButtonsTake \/ ButtonsNotified \/ ButtonsDelayed \/ \E late \in BOOLEAN : ButtonsSample(late)
    <3>1. buttons'.pc \in {"top", "sample", "delay", "decide"}
      BY <2>2, Zenon DEF TypeOK, ButtonsType, ButtonsTake, ButtonsNotified, ButtonsDelayed,
        ButtonsSample
    <3> QED BY <2>1, <3>1, Zenon DEF EventInv
  <2>3. CASE ButtonsDecide
    <3>1. buttons'.pc = "release" => ~key.raw
      BY <2>3, Zenon DEF TypeOK, ButtonsType, ButtonsDecide, ButtonsReady
    <3>2. buttons'.pc # "wait"
      BY <2>3, Zenon DEF TypeOK, ButtonsType, ButtonsDecide
    <3> QED BY <2>1, <3>1, <3>2, Zenon DEF EventInv
  <2>4. CASE ButtonsRelease
    <3>1. buttons.pc = "release" /\ buttons'.notified = buttons.notified
      BY <2>4, Zenon DEF TypeOK, ButtonsType, ButtonsRelease
    <3> QED BY <2>1, <3>1, Zenon DEF EventInv
  <2> QED BY <1>2, <2>2, <2>3, <2>4, Zenon DEF Buttons
<1>3. CASE AccelTask
  <2>1. UNCHANGED <<key, buttons, uart, debug>>
    BY <1>3, Zenon DEF AccelTask, AccelSample, AccelEnter, AccelLeave, AccelTake, AccelInit,
      AccelRead, AccelLook, AccelArm, AccelWait, AccelWake, AccelPause, AccelResume, AccelOnly
  <2>2. CASE AccelArm
    <3>1. accel'.pc = "wait" => ~sensor.high /\ accel'.enabled
      BY <2>2, Zenon DEF TypeOK, AccelType, AccelArm, ArmOk
    <3>2. accel'.pc # "waiting" /\ sensor' = sensor
      BY <2>2, Zenon DEF TypeOK, AccelType, AccelArm
    <3> QED BY <2>1, <3>1, <3>2, Zenon DEF EventInv
  <2>3. CASE AccelWait
    <3>1. /\ accel.pc = "wait" /\ sensor' = sensor
          /\ accel'.enabled = accel.enabled /\ accel'.notified = accel.notified
      BY <2>3, Zenon DEF TypeOK, AccelType, AccelWait, Accel
    <3> QED BY <2>1, <3>1, Zenon DEF EventInv
  <2>4. CASE ~(AccelArm \/ AccelWait)
    <3>1. accel'.pc \notin {"wait", "waiting"}
      <4>1. CASE AccelSample \/ AccelEnter \/ AccelLeave \/ AccelTake \/ AccelInit
        BY <4>1, Zenon DEF TypeOK, AccelType, AccelSample, AccelEnter, AccelLeave, AccelTake,
          AccelInit
      <4>2. CASE AccelRead \/ AccelLook \/ AccelWake \/ AccelPause
        BY <4>2, Zenon DEF TypeOK, AccelType, AccelRead, AccelLook, AccelWake, AccelPause
      <4>3. ASSUME NEW elapsed \in BOOLEAN, AccelResume(elapsed)
            PROVE  accel'.pc \notin {"wait", "waiting"}
        BY <4>3, Zenon DEF TypeOK, AccelType, AccelResume
      <4> QED BY <1>3, <2>4, <4>1, <4>2, <4>3, Zenon DEF AccelTask
    <3> QED BY <2>1, <3>1, Zenon DEF EventInv
  <2> QED BY <2>2, <2>3, <2>4
<1>4. CASE DebugTask
  <2>1. UNCHANGED <<key, buttons, sensor>>
    BY <1>4, Zenon DEF DebugTask, DebugTop, DebugRead, DebugTell, DebugDecide, DebugSet, DebugWake,
      DebugOnly
  <2>2. CASE DebugRead
    <3>1. accel' = accel /\ debug'.notified = debug.notified
      BY <2>2, Zenon DEF TypeOK, DebugType, DebugRead
    <3>2. debug'.pc = "decide" => uart'.ring = << >> /\ ~uart'.error
      BY <2>2, Zenon DEF TypeOK, Uart, DebugType, DebugRead, Debug
    <3>3. debug'.pc \notin {"set", "wait"}
      BY <2>2, Zenon DEF TypeOK, DebugType, DebugRead, Debug
    <3> QED BY <2>1, <3>1, <3>2, <3>3, Zenon DEF EventInv
  <2>3. CASE DebugTell \/ DebugWake \/ \E expired \in BOOLEAN : DebugTop(expired)
    <3>1. /\ debug'.pc \in {"top", "read"}
          /\ accel' = accel \/ accel' = [accel EXCEPT !.notified = TRUE]
      BY <2>3, Zenon DEF TypeOK, DebugType, DebugTell, DebugWake, DebugTop
    <3> QED BY <2>1, <3>1, Zenon DEF TypeOK, AccelType, EventInv
  <2>4. CASE DebugDecide \/ DebugSet
    <3>1. UNCHANGED <<accel, uart>>
      BY <2>4, Zenon DEF DebugDecide, DebugSet
    <3>2. CASE DebugDecide
      BY <2>1, <3>1, <3>2, Zenon DEF TypeOK, DebugType, DebugDecide, Debug, EventInv
    <3>3. CASE DebugSet
      BY <2>1, <3>1, <3>3, Zenon DEF TypeOK, DebugType, DebugSet, Debug, EventInv
    <3> QED BY <2>4, <3>2, <3>3
  <2> QED BY <1>4, <2>2, <2>3, <2>4, Zenon DEF DebugTask
<1>5. CASE Idle
  <2>1. UNCHANGED <<key, buttons, sensor, accel, debug>>
    BY <1>5, Zenon DEF Idle, Elapse, IdleLook, IdleMask, IdleStop, IdleGiveUp, IdleWake, IdleHalt,
      HaltLoop, IdleOnly, vars
  <2>2. uart'.ring = uart.ring /\ uart'.error = uart.error
    BY <1>5, Zenon DEF TypeOK, Uart, Idle, Elapse, IdleLook, IdleMask, IdleStop, IdleGiveUp,
      IdleWake, IdleHalt, HaltLoop, Resume, vars
  <2> QED BY <2>1, <2>2, Zenon DEF EventInv
<1> QED BY <1>1, <1>2, <1>3, <1>4, <1>5, Zenon DEF Next

(* The pin falls in three steps of accelTask.                                *)
LEMMA PinFalls ==
  ASSUME TypeOK, [Next]_vars, sensor.high, ~sensor'.high
  PROVE  clock'.motion = 0 \/ "MOTION" \in power'.faults \/ Hold
<1>1. CASE AccelSample
  BY <1>1, Zenon DEF AccelSample
<1>2. ASSUME NEW p, Moved(p, TRUE)
      PROVE  clock'.motion = 0
  BY <1>2, Zenon DEF Moved, TypeOK, Clock
<1>3. ASSUME NEW p \in Power, NEW moved \in BOOLEAN, Moved(MotionFault(p), moved)
      PROVE  "MOTION" \in power'.faults
  <2>1. SetBlocker(p, {"MOTION"}, TRUE) \in Power
    BY Raised, Zenon DEF Same, Owners
  <2>2. MotionFault(p) \in Power /\ "MOTION" \in MotionFault(p).faults
    BY <2>1, FaultFacts, Zenon DEF MotionFault, SetFault, Power, Same
  <2>3. MotionEvent(MotionFault(p)).faults = MotionFault(p).faults
    BY <2>2, Zenon DEF MotionEvent, Power
  <2> QED BY <1>3, <2>2, <2>3, Zenon DEF Moved
<1>4. CASE AccelInit
  <2>1. PICK moved, ok \in BOOLEAN :
          /\ ok /\ sensor.high => moved
          /\ Moved(IF ok THEN power ELSE MotionFault(power), moved)
    BY <1>4, Zenon DEF AccelInit
  <2>2. CASE ok
    <3>1. Moved(power, TRUE)
      BY <2>1, <2>2, Zenon
    <3> QED BY <1>2, <3>1
  <2>3. CASE ~ok
    BY <1>3, <2>1, <2>3, Zenon DEF TypeOK
  <2> QED BY <2>2, <2>3
<1>5. CASE AccelRead
  <2>1. sensor.high = TRUE
    BY Zenon DEF TypeOK, Sensor
  <2>2. \/ Moved(power, TRUE)
        \/ \E moved \in BOOLEAN : Moved(MotionFault(power), moved)
    BY <1>5, <2>1, Zenon DEF AccelRead
  <2> QED BY <1>2, <1>3, <2>2, Zenon DEF TypeOK
<1>6. CASE ~(AccelSample \/ AccelInit \/ AccelRead)
  <2>1. sensor'.high = sensor.high \/ sensor'.high
    <3>1. CASE Hardware
      BY <3>1, Zenon DEF Hardware, TypeOK, Sensor, Press, LetGo, Activity, Byte, ErrorInterrupt,
        ButtonInterrupt, MotionInterrupt, ReceiveInterrupt
    <3>2. CASE Buttons \/ DebugTask
      BY <3>2, Zenon DEF Buttons, ButtonsTake, ButtonsSample, ButtonsDecide, ButtonsRelease,
        ButtonsNotified, ButtonsDelayed, ButtonsOnly, DebugTask, DebugTop, DebugRead, DebugTell,
        DebugDecide, DebugSet, DebugWake, DebugOnly
    <3>3. CASE AccelTask
      BY <1>6, <3>3, Zenon DEF TypeOK, Sensor, AccelTask, AccelEnter, AccelLeave, AccelTake,
        AccelLook, AccelArm, AccelWait, AccelWake, AccelPause, AccelResume
    <3>4. CASE Idle \/ UNCHANGED vars
      BY <3>4, Zenon DEF Idle, Elapse, IdleLook, IdleMask, IdleStop, IdleGiveUp, IdleWake,
        IdleHalt, HaltLoop, IdleOnly, vars
    <3> QED BY <3>1, <3>2, <3>3, <3>4, Zenon DEF Next
  <2> QED BY <2>1, Zenon
<1> QED BY <1>1, <1>4, <1>5, <1>6

-----------------------------------------------------------------------------
(* The theorems *)

SleepInv == TypeOK /\ WindowInv /\ ButtonsInv /\ AccelInv /\ DebugInv /\ StopInv /\ EventInv

LEMMA SleepInit ==
  ASSUME Init
  PROVE  SleepInv
<1>1. /\ 0 \in 0..(Ticks - 1) /\ 0 \in 0..Over /\ Over \in 0..Over
      /\ 0 # Over /\ ~(Over < Ticks) /\ ~(Over < MotionWindow)
  BY Constants, SMT DEF Over
<1>2. /\ power.blockers = Owners
      /\ power.boot = [open |-> TRUE, age |-> 0] /\ power.motion = [open |-> FALSE, age |-> 0]
      /\ power \in Power
  <2>1. PowerInit \in Power
    BY <1>1, Zenon DEF PowerInit, Power, Window
  <2>2. power \in {PowerInit, Locked(PowerInit)}
    BY Zenon DEF Init
  <2>3. Same(PowerInit, power) /\ power.blockers = PowerInit.blockers
    BY <2>1, <2>2, LockedFacts, Zenon DEF Same
  <2> QED BY <2>3, Zenon DEF Same, PowerInit
<1>3. << >> \in Seq(Bytes) /\ Len(<< >>) <= RingSize
  BY Constants
<1>4. /\ key \in Key /\ buttons \in ButtonsType /\ sensor \in Sensor
      /\ accel \in AccelType /\ debug \in DebugType
  BY Zenon DEF Init, Key, ButtonsType, Sensor, AccelType, DebugType
<1>5. uart \in Uart /\ Len(uart.ring) <= RingSize
  BY <1>3, Zenon DEF Init, Uart, None
<1>6. clock \in Clock /\ events \in [Kinds -> Nat]
  <2>1. clock \in Clock
    BY <1>1, Zenon DEF Init, Clock
  <2>2. events \in [Kinds -> Nat]
    BY SMT DEF Init
  <2> QED BY <2>1, <2>2
<1>7. TypeOK
  BY <1>2, <1>4, <1>5, <1>6, Zenon DEF TypeOK, Init
<1>8. WindowInv
  <2>1. clock.boot = 0 /\ clock.motion = Over
    BY Zenon DEF Init
  <2>2. WindowOf([open |-> TRUE, age |-> 0], 0, BootWindow)
    BY <1>1, Zenon DEF WindowOf
  <2>3. WindowOf([open |-> FALSE, age |-> 0], Over, MotionWindow)
    BY <1>1, Zenon DEF WindowOf
  <2> QED BY <1>2, <2>1, <2>2, <2>3, Zenon DEF WindowInv
<1>9. ButtonsInv /\ AccelInv /\ DebugInv
  BY <1>2, Zenon DEF ButtonsInv, AccelInv, DebugInv, Owners, Init
<1>10. StopInv /\ EventInv
  BY Zenon DEF StopInv, EventInv, Init
<1> QED BY <1>7, <1>8, <1>9, <1>10, Zenon DEF SleepInv

LEMMA SleepStep ==
  ASSUME SleepInv, [Next]_vars
  PROVE  SleepInv'
<1>1. CASE Next
  <2>1. TypeOK'
    BY <1>1, HardwareTyped, ButtonsTyped, AccelTaskTyped, DebugTaskTyped, IdleTyped, Zenon
      DEF Next, SleepInv
  <2> QED BY <1>1, <2>1, WindowInvStep, ButtonsInvStep, AccelInvStep, DebugInvStep, StopInvStep, EventInvStep,
        Zenon DEF SleepInv
<1>2. CASE UNCHANGED vars
  <2> USE <1>2 DEF vars
  <2>1. TypeOK'
    BY Zenon DEF SleepInv, TypeOK
  <2>2. WindowInv'
    BY Zenon DEF SleepInv, WindowInv
  <2>3. ButtonsInv' /\ AccelInv' /\ DebugInv'
    BY Zenon DEF SleepInv, ButtonsInv, AccelInv, DebugInv
  <2>4. StopInv'
    BY Zenon DEF SleepInv, StopInv, AllBlocked, ButtonsWait, AccelWaits, Wakes
  <2>5. EventInv'
    BY Zenon DEF SleepInv, EventInv
  <2> QED BY <2>1, <2>2, <2>3, <2>4, <2>5, Zenon DEF SleepInv
<1> QED BY <1>1, <1>2

(* The inductive invariant of the entry to STOP2.                            *)
THEOREM Inductive == Spec => []SleepInv
<1>1. Init => SleepInv
  BY SleepInit
<1>2. SleepInv /\ [Next]_vars => SleepInv'
  BY SleepStep
<1> QED BY <1>1, <1>2, PTL DEF Spec

(* Every variable keeps its type; the ring never holds more than RingSize    *)
(* bytes and no age of a window leaves the width of the tick counter.        *)
THEOREM TypeCorrect == Spec => []TypeOK
<1>1. SleepInv => TypeOK
  BY Zenon DEF SleepInv
<1> QED BY <1>1, Inductive, PTL

(* The boot and the motion window veto a sleep exactly while their true age  *)
(* is below their length, however often the tick counter wraps, unless       *)
(* nobody looked at them between their end and the wrap.                     *)
THEOREM WindowsHold == Spec => []WindowsAreReal
<1>1. ASSUME NEW w \in Window, NEW length \in Nat \ {0}, NEW age \in 0..Over,
             length < Ticks, age # Missed, WindowOf(w, age, length)
      PROVE  Runs(w, length) <=> age < length
  <2>1. age < length => age < Ticks
    BY <1>1, Constants, SMT DEF Over
  <2>2. age < Ticks \/ age = Over
    BY <1>1, Constants, SMT DEF Missed, Over
  <2> QED BY <1>1, <2>1, <2>2, Zenon DEF WindowOf, Runs
<1>2. SleepInv => WindowsAreReal
  <2> SUFFICES ASSUME SleepInv PROVE WindowsAreReal
    OBVIOUS
  <2>1. /\ clock.boot # Missed => (Runs(power.boot, BootWindow) <=> clock.boot < BootWindow)
        /\ clock.motion # Missed => (Runs(power.motion, MotionWindow) <=> clock.motion < MotionWindow)
    BY <1>1, Windows, Constants, Zenon DEF SleepInv, WindowInv
  <2>2. "BOOT" \notin power.blockers /\ "WINDOW" \notin power.blockers
    BY Zenon DEF SleepInv, TypeOK, Power, Owners
  <2>3. "BOOT" \in Vetoes(power) <=> Runs(power.boot, BootWindow)
    BY <2>2, Zenon DEF Vetoes
  <2>4. "WINDOW" \in Vetoes(power) <=> Runs(power.motion, MotionWindow)
    BY <2>2, Zenon DEF Vetoes
  <2> QED BY <2>1, <2>3, <2>4, Zenon DEF WindowsAreReal
<1> QED BY <1>2, Inductive, PTL

(* The device is in STOP2 only while every owner is at rest, and whatever    *)
(* happens during it leaves an interrupt pending that ends it.               *)
THEOREM StopsOnlyAtRest == Spec => []StopsAtRest
<1>1. SleepInv => StopsAtRest
  <2> SUFFICES ASSUME SleepInv, cpu = "stopped"
               PROVE  AtRest /\ Wakes
    BY Zenon DEF StopsAtRest
  <2>1. AllBlocked /\ CanSleep(power) /\ Wakes /\ uart.ring = << >>
    BY Zenon DEF SleepInv, StopInv
  <2>2. power.blockers = {} /\ power.mode # "HOLD" /\ power.faults = {}
    BY <2>1, Zenon DEF CanSleep, Vetoes
  <2>3. power.mode = "AUTO"
    BY <2>2, Zenon DEF SleepInv, TypeOK, Power
  <2>4. buttons.pc = "wait" /\ ~buttons.candidate /\ ~buttons.stable
    BY <2>1, <2>2, Zenon DEF SleepInv, ButtonsInv, AllBlocked, ButtonsWait
  <2>5. accel.pc = "waiting" /\ sensor.armed
    BY <2>1, <2>2, Zenon DEF SleepInv, AccelInv, AllBlocked, AccelWaits
  <2>6. debug.pc = "wait" /\ ~debug.line
    BY <2>1, <2>2, Zenon DEF SleepInv, DebugInv, AllBlocked
  <2> QED BY <2>1, <2>2, <2>3, <2>4, <2>5, <2>6, Zenon DEF AtRest
<1> QED BY <1>1, Inductive, PTL

(* No press, movement or byte leaves its task waiting without an interrupt   *)
(* or a notification, and no movement in AUTO is dropped unreported.         *)
THEOREM EventsAreHeld == Spec => NoEventLost
<1> DEFINE Pressed == key.raw /\ buttons.pc = "wait" => key.edge \/ buttons.notified
           Shaken == sensor.high /\ accel.pc = "waiting" => sensor.edge \/ accel.notified
           Received == (uart.ring # << >> \/ uart.error) /\ debug.pc = "wait" => debug.notified
           Kept == sensor.high /\ ~sensor'.high =>
                     clock'.motion = 0 \/ "MOTION" \in power'.faults \/ Hold
<1>1. SleepInv => Pressed /\ Shaken /\ Received
  BY Zenon DEF SleepInv, EventInv
<1>2. SleepInv /\ [Next]_vars => [Kept]_vars
  BY PinFalls, Zenon DEF SleepInv
<1> QED BY <1>1, <1>2, Inductive, PTL DEF Spec, NoEventLost

=================================================================================
