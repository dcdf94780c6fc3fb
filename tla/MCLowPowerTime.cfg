SPECIFICATION MCSpec
CONSTANTS
  Stretches = {1, 10, 100, 1000, 10000}
  Expected = {10}
  Entries = {1000}
  Stops = {20, 24}
  Conversions = {300}
  MaxTicks = 2
INVARIANT SysTickGoesOn
CHECK_DEADLOCK FALSE
