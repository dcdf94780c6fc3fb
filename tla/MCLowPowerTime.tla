----------------------------- MODULE MCLowPowerTime -----------------------------
(* LowPowerTime with finitely many arguments for TLC: stretches of which every  *)
(* phase is a sum, and stops that an interrupt ends after a few counts.         *)
EXTENDS LowPowerTime

CONSTANTS Stretches, Expected, Entries, Stops, Conversions, MaxTicks

MCNext ==
  /\ ticks < MaxTicks
  /\ \/ \E cycles \in Stretches : Run(cycles)
     \/ \E expected \in Expected, entry \in Entries, counts \in Stops, conversion \in Conversions :
          Suppress(expected, entry, counts, conversion)

MCSpec == Init /\ [][MCNext]_vars

=================================================================================
