------------------------------ MODULE LowPowerTime ------------------------------
(***************************************************************************)
(* The time kept across STOP2: platform/low_power_time.c and its use in     *)
(* vPortSuppressTicksAndSleep.  While the core runs, SysTick counts its      *)
(* cycles; while it is stopped only the 32768 Hz counter of the LPTIM goes   *)
(* on, and its counts are converted to cycles and ticks at the wake-up.      *)
(* Sleep is about when the device may stop; this module is about what the    *)
(* stop does to the clock.                                                   *)
(***************************************************************************)
EXTENDS Integers

LOW_POWER_LSE_HZ == 32768
LOW_POWER_CORE_HZ == 80000000
LOW_POWER_CYCLES_PER_TICK == 80000
LOW_POWER_MAX_SLEEP_TICKS == 1000

LP_COUNTER_MASK == 65535
LP_WAKE_MARGIN_COUNTS == 66
LP_COMPARE_GUARD_COUNTS == 4

Below(n) == {i \in Nat : i < n}

(* n % 2^32, written so that TLC can read it.                                  *)
U32(n) == ((n \div 65536) % 65536) * 65536 + (n % 65536)

(* low_power_time_cycles: the cycles, and the residue left for the next call. *)
Scaled(counts, remainder) == counts * LOW_POWER_CORE_HZ + remainder
Cycles(counts, remainder) == U32(Scaled(counts, remainder) \div LOW_POWER_LSE_HZ)
Residue(counts, remainder) == Scaled(counts, remainder) % LOW_POWER_LSE_HZ

(* low_power_time_advance *)
Total(begin, elapsed) == U32(begin + elapsed)
Ticks(begin, elapsed) == Total(begin, elapsed) \div LOW_POWER_CYCLES_PER_TICK
Phase(begin, elapsed) == Total(begin, elapsed) % LOW_POWER_CYCLES_PER_TICK

(* low_power_time_deadline: 0 is no sleep.  The running tick is one of the     *)
(* expected ones and has remaining cycles left.                               *)
Capped(expected) ==
  IF expected > LOW_POWER_MAX_SLEEP_TICKS THEN LOW_POWER_MAX_SLEEP_TICKS ELSE expected

Until(expected, remaining) == (expected - 1) * LOW_POWER_CYCLES_PER_TICK + remaining

Deadline(expected, remaining) ==
  IF expected = 0 \/ remaining = 0 \/ remaining > LOW_POWER_CYCLES_PER_TICK THEN 0
  ELSE (Until(Capped(expected), remaining) * LOW_POWER_LSE_HZ) \div LOW_POWER_CORE_HZ

(* low_power_time_step: the jump of vTaskStepTick. *)
Step(elapsed, expected) ==
  IF elapsed < expected THEN elapsed ELSE IF expected = 0 THEN 0 ELSE expected - 1

(* s_program_compare: the value written to the compare register, and whether  *)
(* it is far enough ahead of the counter to be used.                          *)
Compare(start, counts) ==
  LET compare == start + counts - LP_WAKE_MARGIN_COUNTS
  IN  IF compare >= LP_COUNTER_MASK THEN LP_COUNTER_MASK - 1 ELSE compare

Usable(start, counts) ==
  /\ counts > LP_WAKE_MARGIN_COUNTS + LP_COMPARE_GUARD_COUNTS
  /\ Compare(start, counts) > start + LP_COMPARE_GUARD_COUNTS

(* Read again once the register has taken the value. *)
StillAhead(start, now, compare) == start <= now /\ now + LP_COMPARE_GUARD_COUNTS < compare

-----------------------------------------------------------------------------
VARIABLES
  ticks,     \* xTickCount, without its width
  phase,     \* cycles since the last tick, from SysTick
  fraction,  \* s_lse_fraction
  fatal,     \* g_stm32_low_power_diagnostics.fatal: s_fatal never returns
  ran,       \* history: cycles the core ran
  slept      \* history: LPTIM counts of all stops

vars == <<ticks, phase, fraction, fatal, ran, slept>>

CountsOK ==
  /\ ticks \in Nat /\ ran \in Nat /\ slept \in Nat
  /\ phase \in Below(LOW_POWER_CYCLES_PER_TICK)
  /\ fraction \in Below(LOW_POWER_LSE_HZ)

TypeOK == CountsOK /\ fatal \in BOOLEAN

Init == ticks = 0 /\ phase = 0 /\ fraction = 0 /\ fatal = FALSE /\ ran = 0 /\ slept = 0

(* SysTick interrupts at every tick. *)
Run(cycles) ==
  /\ ~fatal
  /\ ticks' = ticks + (phase + cycles) \div LOW_POWER_CYCLES_PER_TICK
  /\ phase' = (phase + cycles) % LOW_POWER_CYCLES_PER_TICK
  /\ ran' = ran + cycles
  /\ UNCHANGED <<fraction, fatal, slept>>

(* One pass of the port: entry cycles with interrupts masked, in which a tick  *)
(* may become pending, counts of the LPTIM while SysTick is stopped, whether   *)
(* or not the WFI was reached, and the cycles of the conversion itself.        *)
Pending(entry) == Ticks(phase, entry)
Stopped(entry, counts) == Ticks(Phase(phase, entry), Cycles(counts, fraction))
Restarted(entry, counts) == Phase(Phase(phase, entry), Cycles(counts, fraction))
Passed(entry, counts, conversion) ==
  Stopped(entry, counts) + Ticks(Restarted(entry, counts), conversion) + Pending(entry)

(* What SysTick is restarted with, so that it wraps at the end of the tick.    *)
(* Zero stops it: the port waits for a count or a tick that never comes and    *)
(* calls s_fatal, before the ticks are counted.                                *)
Reload(begin) == LOW_POWER_CYCLES_PER_TICK - begin - 1

(* Ticks up to the last one before the deadline are stepped over at once, the  *)
(* others given to the scheduler one by one, so none of them is skipped.       *)
Suppress(expected, entry, counts, conversion) ==
  LET passed == Passed(entry, counts, conversion)
      step == Step(passed, expected)
      pended == passed - step
      begin == Phase(Restarted(entry, counts), conversion)
  IN  /\ ~fatal
      /\ phase' = begin
      /\ fraction' = Residue(counts, fraction)
      /\ ran' = ran + entry + conversion
      /\ slept' = slept + counts
      /\ fatal' = (Reload(begin) = 0)
      /\ ticks' = IF Reload(begin) = 0 THEN ticks ELSE ticks + step + pended

Next ==
  \/ \E cycles \in Nat : Run(cycles)
  \/ \E expected \in Nat, entry, conversion \in Below(LOW_POWER_CYCLES_PER_TICK),
        counts \in Below(LP_COUNTER_MASK + 1) : Suppress(expected, entry, counts, conversion)

Spec == Init /\ [][Next]_vars

-----------------------------------------------------------------------------
(* The tick count is the time that passed, however many stops it spans: what   *)
(* the core ran and what the LPTIM counted, to the last fraction of a cycle.   *)
Balance ==
  (ticks * LOW_POWER_CYCLES_PER_TICK + phase) * LOW_POWER_LSE_HZ + fraction
    = ran * LOW_POWER_LSE_HZ + slept * LOW_POWER_CORE_HZ

TimeConserved == fatal \/ Balance

(* docs/low_power.md:40: the port keeps the phase of SysTick over a stop;      *)
(* platform/stm32_low_power.c:313: the short first reload latches.  No step of *)
(* this module has a clock or a timer fail, so SysTick always goes on.         *)
SysTickGoesOn == ~fatal

=================================================================================
