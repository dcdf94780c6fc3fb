--------------------------- MODULE LowPowerTimeProofs ---------------------------
(***************************************************************************)
(* Proofs about LowPowerTime for every deadline, counter value and sequence *)
(* of stops.  Exact says that the two conversions are divisions that keep    *)
(* their residue and do not overflow; the invariant adds them up.            *)
(***************************************************************************)
EXTENDS LowPowerTime, TLAPS

USE DEF LOW_POWER_LSE_HZ, LOW_POWER_CORE_HZ, LOW_POWER_CYCLES_PER_TICK, LP_COUNTER_MASK, Below

(* Division with its residue, for the two divisors of the code.              *)
LEMMA ByTick ==
  ASSUME NEW n \in Nat, NEW q, q = n \div 80000, NEW r, r = n % 80000
  PROVE  q \in Nat /\ r \in Below(80000) /\ n = 80000 * q + r
<1>1. q \in Int /\ q >= 0
  BY SMT
<1>2. r \in Int /\ r >= 0 /\ r < 80000
  BY SMT
<1>3. n = 80000 * q + r
  BY <1>1, <1>2, Z3
<1> QED BY <1>1, <1>2, <1>3, SMT

LEMMA ByCount ==
  ASSUME NEW n \in Nat, NEW q, q = n \div 32768, NEW r, r = n % 32768
  PROVE  q \in Nat /\ r \in Below(32768) /\ n = 32768 * q + r
<1>1. q \in Int /\ q >= 0
  BY SMT
<1>2. r \in Int /\ r >= 0 /\ r < 32768
  BY SMT
<1>3. n = 32768 * q + r
  BY <1>1, <1>2, Z3
<1> QED BY <1>1, <1>2, <1>3, SMT

(* What fits in 32 bits is kept.                                              *)
LEMMA Fits ==
  ASSUME NEW n \in Below(300000000)
  PROVE  U32(n) = n
<1> DEFINE q == n \div 65536
           r == n % 65536
<1>1. n \in Nat /\ n < 300000000
  BY SMT
<1>2. q \in Int /\ q >= 0 /\ r \in Int /\ r >= 0 /\ r < 65536
  BY <1>1, SMT
<1>3. n = 65536 * q + r
  BY <1>1, <1>2, Z3
<1>4. U32(n) = (q % 65536) * 65536 + r
  BY SMT DEF U32
<1> HIDE DEF q, r
<1>5. q < 65536
  BY <1>1, <1>2, <1>3, SMT
<1>6. q % 65536 = q
  BY <1>2, <1>5, SMT
<1> QED BY <1>2, <1>3, <1>4, <1>6, SMT

(* No count of the LPTIM overflows the 32 bits of the cycles it stands for.   *)
LEMMA CyclesExact ==
  ASSUME NEW counts \in Below(LP_COUNTER_MASK + 1), NEW remainder \in Below(LOW_POWER_LSE_HZ)
  PROVE  /\ Cycles(counts, remainder) \in Below(200000001)
         /\ Residue(counts, remainder) \in Below(LOW_POWER_LSE_HZ)
         /\ Cycles(counts, remainder) * LOW_POWER_LSE_HZ + Residue(counts, remainder)
              = counts * LOW_POWER_CORE_HZ + remainder
<1> DEFINE n == counts * 80000000 + remainder
           q == n \div 32768
           r == n % 32768
<1>1. n \in Nat /\ n <= 65535 * 80000000 + 32767
  BY SMT
<1>2. q = n \div 32768 /\ r = n % 32768
  BY SMT
<1>3. Scaled(counts, remainder) = n
  BY SMT DEF Scaled
<1> HIDE DEF n, q, r
<1>4. q \in Nat /\ r \in Below(32768) /\ n = 32768 * q + r
  BY <1>1, <1>2, ByCount, SMT
<1>5. q <= 200000000
  BY <1>1, <1>4, SMT
<1>6. U32(q) = q
  BY <1>4, <1>5, Fits, SMT
<1>7. Cycles(counts, remainder) = q /\ Residue(counts, remainder) = r
  BY <1>2, <1>3, <1>6, SMT DEF Cycles, Residue
<1> QED BY <1>4, <1>5, <1>7, SMT DEF n

(* Ticks and phase add up to the cycles that went in.                         *)
LEMMA AdvanceExact ==
  ASSUME NEW p \in Below(LOW_POWER_CYCLES_PER_TICK), NEW elapsed \in Below(200000001)
  PROVE  /\ Ticks(p, elapsed) \in Nat
         /\ Phase(p, elapsed) \in Below(LOW_POWER_CYCLES_PER_TICK)
         /\ Ticks(p, elapsed) * LOW_POWER_CYCLES_PER_TICK + Phase(p, elapsed) = p + elapsed
<1>1. Total(p, elapsed) = p + elapsed
  <2>1. p + elapsed \in Below(300000000)
    BY SMT
  <2> QED BY <2>1, Fits, SMT DEF Total
<1>2. p + elapsed \in Nat
  BY SMT
<1> DEFINE q == Ticks(p, elapsed)
           r == Phase(p, elapsed)
<1>3. q = (p + elapsed) \div 80000 /\ r = (p + elapsed) % 80000
  BY <1>1, SMT DEF Ticks, Phase
<1> HIDE DEF q, r
<1>4. q \in Nat /\ r \in Below(80000) /\ p + elapsed = 80000 * q + r
  BY <1>2, <1>3, ByTick, SMT
<1> QED BY <1>4, SMT DEF q, r

LEMMA Start == Init => CountsOK /\ Balance
  BY SMT DEF Init, CountsOK, Balance

LEMMA RunStep ==
  ASSUME CountsOK, Balance, NEW cycles \in Nat, Run(cycles)
  PROVE  CountsOK' /\ Balance'
<1> DEFINE n == phase + cycles
           q == n \div 80000
           r == n % 80000
<1>1. n \in Nat /\ n = phase + cycles
  BY SMT DEF CountsOK
<1>2. q = n \div 80000 /\ r = n % 80000
  BY SMT
<1>3. ticks' = ticks + q /\ phase' = r
  BY SMT DEF Run
<1>4. ran' = ran + cycles /\ slept' = slept /\ fraction' = fraction
  BY SMT DEF Run
<1> HIDE DEF n, q, r
<1>5. q \in Nat /\ r \in Below(80000) /\ n = 80000 * q + r
  BY <1>1, <1>2, ByTick, SMT
<1>6. CountsOK'
  BY <1>3, <1>4, <1>5, SMT DEF CountsOK
<1>7. ticks' * 80000 + phase' = ticks * 80000 + phase + cycles
  BY <1>1, <1>3, <1>5, SMT DEF CountsOK
<1>8. (ticks' * 80000 + phase') * 32768 + fraction'
         = ran' * 32768 + slept' * 80000000
  BY <1>4, <1>7, SMT DEF CountsOK, Balance
<1> QED BY <1>6, <1>8, SMT DEF Balance

LEMMA SuppressStep ==
  ASSUME CountsOK, Balance,
         NEW expected \in Nat, NEW entry \in Below(LOW_POWER_CYCLES_PER_TICK),
         NEW conversion \in Below(LOW_POWER_CYCLES_PER_TICK),
         NEW counts \in Below(LP_COUNTER_MASK + 1),
         Suppress(expected, entry, counts, conversion)
  PROVE  CountsOK' /\ (Reload(Phase(Restarted(entry, counts), conversion)) # 0 => Balance')
<1> DEFINE cycles == Cycles(counts, fraction)
           begin == Phase(phase, entry)
           again == Restarted(entry, counts)
<1>1. /\ cycles \in Below(200000001) /\ Residue(counts, fraction) \in Below(32768)
      /\ cycles * 32768 + Residue(counts, fraction) = counts * 80000000 + fraction
  BY CyclesExact, SMT DEF CountsOK
<1>2. /\ Pending(entry) \in Nat /\ begin \in Below(80000)
      /\ Pending(entry) * 80000 + begin = phase + entry
  <2>1. phase \in Below(80000) /\ entry \in Below(200000001)
    BY SMT DEF CountsOK
  <2>2. Pending(entry) = Ticks(phase, entry)
    BY SMT DEF Pending
  <2> HIDE DEF LOW_POWER_CYCLES_PER_TICK, Below
  <2> QED BY <2>1, <2>2, AdvanceExact, SMT DEF LOW_POWER_CYCLES_PER_TICK
<1>3. /\ Stopped(entry, counts) \in Nat /\ again \in Below(80000)
      /\ Stopped(entry, counts) * 80000 + again = begin + cycles
  <2>1. Stopped(entry, counts) = Ticks(begin, cycles) /\ again = Phase(begin, cycles)
    BY SMT DEF Stopped, Restarted
  <2> HIDE DEF cycles, begin, again
  <2> QED BY <1>1, <1>2, <2>1, AdvanceExact, SMT
<1>4. /\ Ticks(again, conversion) \in Nat /\ Phase(again, conversion) \in Below(80000)
      /\ Ticks(again, conversion) * 80000 + Phase(again, conversion) = again + conversion
  BY <1>3, AdvanceExact, SMT
<1>5. /\ ran' = ran + entry + conversion /\ slept' = slept + counts
      /\ fraction' = Residue(counts, fraction) /\ phase' = Phase(again, conversion)
  BY SMT DEF Suppress
<1> HIDE DEF cycles, begin, again
<1>6. Passed(entry, counts, conversion) \in Nat
      /\ Passed(entry, counts, conversion)
           = Stopped(entry, counts) + Ticks(again, conversion) + Pending(entry)
  BY <1>2, <1>3, <1>4, SMT DEF Passed, again
<1>7. CASE Reload(Phase(again, conversion)) = 0
  <2>1. ticks' = ticks
    BY <1>7, SMT DEF Suppress, again
  <2>2. CountsOK'
    BY <1>1, <1>4, <1>5, <2>1, SMT DEF CountsOK
  <2> QED BY <1>7, <2>2, SMT DEF again
<1>8. CASE Reload(Phase(again, conversion)) # 0
  <2>1. ticks' = ticks + Passed(entry, counts, conversion)
    <3>1. Step(Passed(entry, counts, conversion), expected) \in Nat
      BY <1>6, SMT DEF Step
    <3>2. ticks \in Nat
      BY SMT DEF CountsOK
    <3> QED BY <1>6, <1>8, <3>1, <3>2, SMT DEF Suppress, again
  <2>2. CountsOK'
    BY <1>1, <1>4, <1>5, <1>6, <2>1, SMT DEF CountsOK
  <2>3. ticks' * 80000 + phase' = ticks * 80000 + phase + entry + cycles + conversion
    BY <1>2, <1>3, <1>4, <1>5, <1>6, <2>1, <1>1, SMT DEF CountsOK
  <2>4. (ticks' * 80000 + phase') * 32768 + fraction'
           = (ticks * 80000 + phase) * 32768 + fraction
             + (entry + conversion) * 32768 + counts * 80000000
    BY <1>1, <1>5, <2>3, SMT DEF CountsOK
  <2>5. Balance'
    BY <1>5, <2>2, <2>4, SMT DEF Balance, CountsOK
  <2> QED BY <2>2, <2>5, SMT
<1> QED BY <1>7, <1>8, SMT

(* The timer is never set past the boundary of the tick that is due, and a     *)
(* sleep never outlasts the 16 bits of the counter (low_power_time_deadline).  *)
THEOREM WakesByTheDeadline ==
  ASSUME NEW expected \in Nat, NEW remaining \in Nat \ {0}, expected > 0,
         remaining <= LOW_POWER_CYCLES_PER_TICK
  PROVE  /\ Deadline(expected, remaining) \in Below(LOW_POWER_LSE_HZ + 1)
         /\ Deadline(expected, remaining) * LOW_POWER_CORE_HZ
              <= Until(expected, remaining) * LOW_POWER_LSE_HZ
<1> DEFINE capped == Capped(expected)
           until == Until(capped, remaining)
           counts == (until * 32768) \div 80000000
<1>1. capped \in Nat /\ 1 <= capped /\ capped <= 1000 /\ capped <= expected
  BY SMT DEF Capped, LOW_POWER_MAX_SLEEP_TICKS
<1>2. until \in Nat /\ 1 <= until /\ until <= 80000000 /\ until <= Until(expected, remaining)
  <2> HIDE DEF capped
  <2> QED BY <1>1, SMT DEF Until
<1>3. Deadline(expected, remaining) = counts
  BY SMT DEF Deadline
<1> HIDE DEF until
<1>4. counts \in Int /\ counts * 80000000 <= until * 32768 /\ until * 32768 < (counts + 1) * 80000000
  BY <1>2, SMT
<1> HIDE DEF counts
<1>5. counts \in Below(32769)
  BY <1>2, <1>4, SMT
<1>6. Until(expected, remaining) \in Int
  BY SMT DEF Until
<1> QED BY <1>2, <1>3, <1>4, <1>5, <1>6, SMT

(* A tick at which a task is due is never stepped over: the jump ends before   *)
(* it, and the ticks from it on are given to the scheduler one by one           *)
(* (low_power_time_step).                                                      *)
THEOREM DueTickIsPended ==
  ASSUME NEW elapsed \in Nat, NEW expected \in Nat
  PROVE  /\ Step(elapsed, expected) \in Nat /\ Step(elapsed, expected) <= elapsed
         /\ expected > 0 => Step(elapsed, expected) < expected
  BY SMT DEF Step

(* What is programmed lies ahead of the counter and below its wrap, at least   *)
(* the margin before the deadline, and still ahead when the register has taken *)
(* it (s_program_compare): no sleep lasts a turn of the counter.               *)
THEOREM CompareIsAhead ==
  ASSUME NEW start \in Below(LP_COUNTER_MASK + 1), NEW counts \in Below(LOW_POWER_LSE_HZ + 1),
         Usable(start, counts), NEW now \in Below(LP_COUNTER_MASK + 1),
         StillAhead(start, now, Compare(start, counts))
  PROVE  /\ Compare(start, counts) \in Below(LP_COUNTER_MASK)
         /\ now < Compare(start, counts)
         /\ Compare(start, counts) + LP_WAKE_MARGIN_COUNTS <= start + counts
  BY SMT DEF Usable, StillAhead, Compare, LP_WAKE_MARGIN_COUNTS, LP_COMPARE_GUARD_COUNTS

HIDE DEF LOW_POWER_LSE_HZ, LOW_POWER_CORE_HZ, LOW_POWER_CYCLES_PER_TICK, LP_COUNTER_MASK, Below

(* However many stops, deadlines and pending ticks: the tick count is the time *)
(* the core ran and the LPTIM counted, and no fraction of a cycle is dropped   *)
(* (low_power_time_cycles, low_power_time_advance, vPortSuppressTicksAndSleep). *)
THEOREM NoTimeLost == Spec => [](TypeOK /\ TimeConserved)
<1>1. TypeOK /\ TimeConserved /\ [Next]_vars => (TypeOK /\ TimeConserved)'
  <2> SUFFICES ASSUME CountsOK, fatal \in BOOLEAN, fatal \/ Balance, [Next]_vars
               PROVE  CountsOK' /\ fatal' \in BOOLEAN /\ (fatal' \/ Balance')
    BY Zenon DEF TypeOK, TimeConserved
  <2>1. CASE UNCHANGED vars
    <3>1. CountsOK'
      BY <2>1, SMT DEF vars, CountsOK
    <3>2. Balance' = Balance /\ fatal' = fatal
      BY <2>1, Zenon DEF vars, Balance
    <3> QED BY <3>1, <3>2, Zenon
  <2>2. ASSUME NEW cycles \in Nat, Run(cycles)
        PROVE  CountsOK' /\ fatal' \in BOOLEAN /\ Balance'
    <3>1. ~fatal /\ fatal' = fatal
      BY <2>2, Zenon DEF Run
    <3>2. Balance
      BY <3>1, Zenon
    <3> QED BY <2>2, <3>1, <3>2, RunStep, Zenon
  <2>3. ASSUME NEW expected \in Nat, NEW entry \in Below(LOW_POWER_CYCLES_PER_TICK),
               NEW conversion \in Below(LOW_POWER_CYCLES_PER_TICK),
               NEW counts \in Below(LP_COUNTER_MASK + 1),
               Suppress(expected, entry, counts, conversion)
        PROVE  CountsOK' /\ fatal' \in BOOLEAN /\ (fatal' \/ Balance')
    <3> DEFINE stuck == Reload(Phase(Restarted(entry, counts), conversion)) = 0
    <3>1. ~fatal /\ fatal' = stuck
      BY <2>3, Zenon DEF Suppress
    <3>2. Balance
      BY <3>1, Zenon
    <3>3. CountsOK' /\ (~stuck => Balance')
      BY <2>3, <3>2, SuppressStep, Zenon
    <3> HIDE DEF stuck
    <3>4. fatal' \in BOOLEAN
      BY <3>1, Zenon DEF stuck
    <3> QED BY <3>1, <3>3, <3>4, Zenon
  <2> QED BY <2>1, <2>2, <2>3, Zenon DEF Next
<1>2. Init => TypeOK /\ TimeConserved
  BY Start, Zenon DEF Init, TypeOK, TimeConserved
<1> QED BY <1>1, <1>2, PTL DEF Spec

=================================================================================
