SPECIFICATION FairSpec
CONSTANTS
  Ticks = 2
  BootWindow = 1
  MotionWindow = 1
  RingSize = 1
  Scenarios <- PressOrPairs
INVARIANTS TypeOK StopsAtRest WindowsAreReal
PROPERTIES NoEventLost SleepsAgain
