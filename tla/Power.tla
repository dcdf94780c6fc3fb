---------------------------------- MODULE Power ----------------------------------
(***************************************************************************)
(* app/power.c: who vetoes STOP2.  The state is one record that every task *)
(* changes in critical sections, so each operator is one atomic call.      *)
(*                                                                         *)
(* A tick count is 32 bits wide and wraps.  A window is kept as the age    *)
(* the code computes, now - start modulo the width, while it is open.      *)
(***************************************************************************)
EXTENDS Naturals

CONSTANTS Ticks,          \* values of the tick counter, 2^32 on the device
          BootWindow,     \* POWER_BOOT_WINDOW_MS
          MotionWindow    \* POWER_MOTION_WINDOW_MS

ASSUME WindowsAssumption ==
  /\ {Ticks, BootWindow, MotionWindow} \subseteq Nat \ {0}
  /\ BootWindow < Ticks /\ MotionWindow < Ticks

Owners == {"DEBUG", "ACCEL", "MOTION", "INPUT"}  \* of the blockers modelled

Window == [open : BOOLEAN, age : 0..Ticks - 1]

Power == [mode : {"AUTO", "HOLD"}, blockers : SUBSET Owners, faults : SUBSET {"MOTION", "TIMER"},
          boot : Window, motion : Window]

(* power_init: every owner starts with a veto. *)
PowerInit == [mode |-> "AUTO", blockers |-> Owners, faults |-> {},
              boot |-> [open |-> TRUE, age |-> 0], motion |-> [open |-> FALSE, age |-> 0]]

SetBlocker(p, mask, active) ==
  [p EXCEPT !.blockers = IF active THEN @ \cup mask ELSE @ \ mask]

SetFault(p, fault, active) ==
  [p EXCEPT !.faults = IF active THEN @ \cup {fault} ELSE @ \ {fault}]

(* power_set_mode up to the notifications: the owner of the accelerometer has *)
(* to acknowledge the mode before the next sleep.                             *)
SetMode(p, mode) == SetBlocker([p EXCEPT !.mode = mode], {"ACCEL", "MOTION"}, TRUE)

MotionEvent(p) == [p EXCEPT !.motion = [open |-> TRUE, age |-> 0]]

(* The code subtracts the start from the current count. *)
Older(w, ticks) == IF w.open THEN [w EXCEPT !.age = (@ + ticks) % Ticks] ELSE w
Later(p, ticks) == [p EXCEPT !.boot = Older(@, ticks), !.motion = Older(@, ticks)]

Runs(w, length) == w.open /\ w.age < length

(* Mutant of Latched: an expired window is not marked as closed. *)
LatchedNever(w, length) == w

Latched(w, length) == IF Runs(w, length) THEN w ELSE [open |-> FALSE, age |-> 0]

(* s_blockers: closes the windows that have expired and adds up the vetoes. *)
Look(p) == [p EXCEPT !.boot = Latched(@, BootWindow), !.motion = Latched(@, MotionWindow)]

Vetoes(p) ==
  p.blockers
    \cup (IF Runs(p.boot, BootWindow) THEN {"BOOT"} ELSE {})
    \cup (IF Runs(p.motion, MotionWindow) THEN {"WINDOW"} ELSE {})
    \cup (IF p.mode = "HOLD" THEN {"HOLD"} ELSE {})
    \cup (IF p.faults # {} THEN {"FAULT"} ELSE {})

CanSleep(p) == Vetoes(p) = {}

===================================================================================
